---- MODULE Spec2Model ----
(***************************************************************************)
(* A model of the bot compiler of this repository.                         *)
(*                                                                         *)
(*   src/src/compiler.js   the current compiler (magic PBO3 / NBO2)        *)
(*   src/unnamed/part_000  the earlier lib/compiler.js (magic PBO1 / NBO1) *)
(*                                                                         *)
(* Both revisions are modelled; the variable rev says which one runs.      *)
(* Offsets into the byte code are 0-based as in the source; the TLA+       *)
(* sequence bytecode holds the byte at offset p in bytecode[p + 1].        *)
(***************************************************************************)
EXTENDS Integers, Sequences, FiniteSets, TLC

VARIABLES
  rev,            \* the revision that runs: its magic
  pc,             \* the position of the running compile call
  error,          \* the message of the Error the call threw, "" while none
  bytecode,       \* const bytecode = []
  constants,      \* const constants = []
  program,        \* generateNetworkBytecode(program): { blocks, connections }
  blockIds,       \* const blockIds = new Set()
  successors,     \* id -> the targets, in insertion order (a JS Set)
  predecessors,   \* id -> the sources
  startId,
  blockConstIdx,  \* id -> index into constants
  blockStartPos,  \* id -> offset of its EXEC_BLOCK
  jumpPatches,    \* [{ pos, targetId }]
  placed,         \* const placed = new Set()
  pending,        \* the layout worklist
  source,         \* compileProgramBot(source): the characters
  lexPos,         \* tokenize: let i
  tokens,         \* tokenize: const tokens = []
  ast,            \* the Program node generateBytecode is called with
  ifMarks,        \* per emitted if: jzIdx, jmpIdx and where its parts begin
  loopMarks,      \* per emitted loop: loopStart and where its JMP operand is
  marks,          \* per emitted try, switch, logical or update: where its parts are
  loopStack,      \* const loopStack = [], as generateBytecode leaves it
  errors,         \* the diagnostics validateSemantics has collected
  constLog,       \* per addConstant call of the emit: the value and the index returned
  binary,         \* the Buffer the compile call returned
  calls,          \* the calls that have returned or thrown: input and outcome
  linked,         \* the worker's import './compiler': the magic of its compileNetworkBots
  programs,       \* the rows of the programs table the worker writes
  request,        \* the request the worker's fetch handler is handling
  responses       \* the requests handled so far, each with its Response

common  == <<rev, pc, error, bytecode, constants>>
netVars == <<program, blockIds, successors, predecessors, startId,
             blockConstIdx, blockStartPos, jumpPatches, placed, pending>>
textVars == <<source, lexPos, tokens, ast, errors, ifMarks, loopMarks, marks, loopStack, constLog>>
workerVars == <<linked, programs, request, responses>>
outVars == <<binary, calls, workerVars>>
vars    == <<common, netVars, textVars, outVars>>

\* No request is being handled.
NoRequest == [method |-> "", path |-> <<>>, body |-> [source |-> <<>>]]

\* The compile functions are called without the worker: its table and its
\* log are empty.
NoWorker ==
  /\ linked = "NBO2"
  /\ programs = <<>>
  /\ request = NoRequest
  /\ responses = <<>>

(***************************************************************************)
(* Bounds of the model.                                                    *)
(***************************************************************************)
MaxConns  == 3    \* at most this many connections in a graph
MaxBranch == 1    \* at most this many if/loop blocks in a graph

(***************************************************************************)
(* JavaScript values and byte arithmetic.                                  *)
(***************************************************************************)
NoError == ""

\* What bytecode.push(undefined) leaves in the array: no byte at all.
UndefinedByte == -1

Range(s) == {s[i] : i \in DOMAIN s}

\* (value >> 24) & 0xFF, (value >> 16) & 0xFF, (value >> 8) & 0xFF, value & 0xFF
U32Bytes(value) ==
  << (value \div 16777216) % 256, (value \div 65536) % 256,
     (value \div 256) % 256, value % 256 >>

\* (value >> 8) & 0xFF, value & 0xFF
U16Bytes(value) == << (value \div 256) % 256, value % 256 >>

\* bytecode[p] = hi; bytecode[p + 1] = lo   (p a 0-based offset)
WriteU16(code, p, value) ==
  [code EXCEPT ![p + 1] = U16Bytes(value)[1], ![p + 2] = U16Bytes(value)[2]]

\* The signed 16-bit big-endian operand read back from offset p.
ReadS16(code, p) ==
  LET u == code[p + 1] * 256 + code[p + 2]
  IN  IF u >= 32768 THEN u - 65536 ELSE u

\* The u32 big-endian operand read back from offset p.
ReadU32(code, p) ==
  code[p + 1] * 16777216 + code[p + 2] * 65536 + code[p + 3] * 256 + code[p + 4]

(***************************************************************************)
(* Opcode tables.                                                          *)
(***************************************************************************)
\* const OP = { ... } of src/src/compiler.js.  It has no EXEC_BLOCK entry.
OP ==
  [ PUSH_CONST |-> 1, POP |-> 2, DUP |-> 3, SWAP |-> 4,
    LOAD_VAR |-> 5, STORE_VAR |-> 6, ADD |-> 9, SUB |-> 10, EQ |-> 14,
    LT |-> 16, GT |-> 17, AND |-> 20, OR |-> 21,
    JMP |-> 32, JZ |-> 33, JNZ |-> 34, CALL |-> 35, RETURN |-> 36,
    ENTER_FUNC |-> 37, GET_PROP |-> 42, GET_PROP_COMPUTED |-> 44,
    GET_ITERATOR |-> 96, THROW |-> 112, CATCH |-> 113, FINALLY |-> 114,
    END_CATCH |-> 115, HALT |-> 255 ]

\* The byte literals of generateNetworkBytecode in lib/compiler.js (NBO1).
NBO1_OP == [ EXEC_BLOCK |-> 20, JMP |-> 18, JZ |-> 19, HALT |-> 255 ]

\* OP.<name> as the running revision evaluates it: a missing property of OP
\* is undefined.
NetOp(r, name) ==
  IF r = "NBO1" THEN NBO1_OP[name]
  ELSE IF name \in DOMAIN OP THEN OP[name] ELSE UndefinedByte

(***************************************************************************)
(* assembleBinary(magic, bytecode, constants).                             *)
(***************************************************************************)
\* The printable ASCII characters of codes 32 to 95 and of codes 97 to 126.
AsciiFrom32 ==
  <<
     " ", "!", "\"", "#", "$", "%", "&", "'", "(", ")", "*", "+", ",", "-", ".", "/",
     "0", "1", "2", "3", "4", "5", "6", "7", "8", "9", ":", ";", "<", "=", ">", "?",
     "@", "A", "B", "C", "D", "E", "F", "G", "H", "I", "J", "K", "L", "M", "N", "O",
     "P", "Q", "R", "S", "T", "U", "V", "W", "X", "Y", "Z", "[", "\\", "]", "^", "_"
  >>

AsciiFrom97 ==
  <<
     "a", "b", "c", "d", "e", "f", "g", "h", "i", "j", "k", "l", "m", "n", "o", "p",
     "q", "r", "s", "t", "u", "v", "w", "x", "y", "z", "{", "|", "}", "~"
  >>

CharCode(ch) ==
  IF \E i \in DOMAIN AsciiFrom32 : AsciiFrom32[i] = ch
  THEN 31 + CHOOSE i \in DOMAIN AsciiFrom32 : AsciiFrom32[i] = ch
  ELSE 96 + CHOOSE i \in DOMAIN AsciiFrom97 : AsciiFrom97[i] = ch

\* The string the characters cs spell.
RECURSIVE Spell(_)
Spell(cs) == IF cs = <<>> THEN "" ELSE Head(cs) \o Spell(Tail(cs))

\* The characters of the strings the compiler itself names, of the words of
\* the graphs, and of every piece of the source text.
Spellings ==
  { <<"P", "B", "O", "1">>,
    <<"P", "B", "O", "3">>,
    <<"N", "B", "O", "1">>,
    <<"N", "B", "O", "2">>,
    <<"c", "o", "n", "s", "o", "l", "e">>,
    <<"$", "i", "t", "e", "r", "a", "t", "o", "r">>,
    <<"n", "e", "x", "t">>,
    <<"d", "o", "n", "e">>,
    <<"v", "a", "l", "u", "e">>,
    <<"u", "n", "d", "e", "f", "i", "n", "e", "d">>,
    <<"s", "t", "a", "r", "t">>,
    <<"e", "n", "d">>,
    <<"i", "f">>,
    <<"l", "o", "o", "p">>,
    <<"x">>,
    <<"e">>,
    <<"$", "s", "w", "i", "t", "c", "h">>,
    <<"A">>,
    <<"B">>,
    <<"C">>,
    <<"t", "r", "u", "e", "T", "a", "r", "g", "e", "t">>,
    <<"f", "a", "l", "s", "e", "T", "a", "r", "g", "e", "t">>,
    <<"b", "o", "d", "y", "S", "t", "a", "r", "t">>,
    <<"e", "x", "i", "t", "T", "a", "r", "g", "e", "t">> }
  \cup { SubSeq(source, i, j) : i \in 1..Len(source), j \in 1..Len(source) }

Chars(x) == CHOOSE cs \in Spellings : Spell(cs) = x

\* Buffer.from(string, 'utf8'), for ASCII characters
Utf8Chars(cs) == [i \in DOMAIN cs |-> CharCode(cs[i])]
Utf8(x) == Utf8Chars(Chars(x))

\* buf.writeUInt32LE(value)
U32LE(value) ==
  << value % 256, (value \div 256) % 256, (value \div 65536) % 256,
     (value \div 16777216) % 256 >>

RECURSIVE Log2(_)
Log2(n) == IF n < 2 THEN 0 ELSE 1 + Log2(n \div 2)

RECURSIVE Pow2(_)
Pow2(e) == IF e = 0 THEN 1 ELSE 2 * Pow2(e - 1)

\* encoded.writeDoubleLE(n), for an integer 0 <= n < 2048: sign 0, biased
\* exponent 1023 + e, and the fraction n / 2^e - 1 in the top bits of the
\* mantissa; the least significant byte first.
DoubleLE(n) ==
  IF n = 0 THEN <<0, 0, 0, 0, 0, 0, 0, 0>>
  ELSE LET e    == Log2(n)
           f    == n - Pow2(e)
           bexp == 1023 + e
       IN  << 0, 0, 0, 0,
              ((f * 1048576) \div Pow2(e)) % 256,
              ((f * 4096) \div Pow2(e)) % 256,
              (bexp % 16) * 16 + (((f * 16) \div Pow2(e)) % 16),
              bexp \div 16 >>

Quote == "\""

\* JSON.stringify of a block's config: its targets in the order the graphs
\* write them.
ConfigJson(config) ==
  LET keys == SelectSeq(<<"trueTarget", "falseTarget", "bodyStart", "exitTarget">>,
                        LAMBDA k : k \in DOMAIN config)
      Entry(i) == (IF i = 1 THEN <<>> ELSE <<",">>)
                  \o <<Quote>> \o Chars(keys[i]) \o <<Quote, ":", Quote>>
                  \o Chars(config[keys[i]]) \o <<Quote>>
  IN  <<"{">> \o (IF Len(keys) >= 1 THEN Entry(1) ELSE <<>>)
             \o (IF Len(keys) >= 2 THEN Entry(2) ELSE <<>>) \o <<"}">>

\* JSON.stringify({ type, config })
BlockJson(constant) ==
  <<"{", Quote, "t", "y", "p", "e", Quote, ":", Quote>> \o Chars(constant.type)
  \o <<Quote, ",", Quote, "c", "o", "n", "f", "i", "g", Quote, ":">>
  \o ConfigJson(constant.config) \o <<"}">>

\* let encoded, by typeof constant.  PBO1/NBO1 has no case for undefined and
\* falls to String(constant).
Encoded(r, constant) ==
  IF constant.k = "string" THEN Utf8(constant.v)
  ELSE IF constant.k = "number" THEN DoubleLE(constant.v)
  ELSE IF constant.k = "null" THEN <<0>>
  ELSE IF constant.k = "boolean" THEN <<constant.v>>
  ELSE IF constant.k = "object" THEN Utf8Chars(BlockJson(constant))
  ELSE IF r \in {"PBO3", "NBO2"} THEN <<0>>
  ELSE Utf8("undefined")

\* constants.forEach(...): dataSection grows by lengthBuf and encoded.
RECURSIVE DataSection(_, _, _, _)
DataSection(r, pool, i, dataSection) ==
  IF i > Len(pool) THEN dataSection
  ELSE LET encoded == Encoded(r, pool[i])
           newData == U32LE(Len(encoded)) \o encoded
       IN  DataSection(r, pool, i + 1, dataSection \o newData)

FinalDataSectionUnsliced(dataSection) == dataSection

\* dataSection.slice(4): without the four bytes of Buffer.alloc(4)
FinalDataSection(dataSection) == SubSeq(dataSection, 5, Len(dataSection))

\* Buffer.from(bytecode): each element modulo 256
CodeSection(code) == [i \in DOMAIN code |-> code[i] % 256]

assembleBinary(magic, code, pool) ==
  LET finalDataSection == FinalDataSection(DataSection(magic, pool, 1, <<0, 0, 0, 0>>))
      codeSection      == CodeSection(code)
      header == Utf8(magic) \o U32LE(0) \o U32LE(Len(finalDataSection))
                \o U32LE(Len(codeSection))
  IN  header \o finalDataSection \o codeSection

\* return assembleBinary(magic, bytecode, constants), the last statement of
\* compileProgramBot and of compileNetworkBots.
AssembleBinary ==
  /\ pc = "done"
  /\ binary' = assembleBinary(rev, bytecode, constants)
  /\ pc' = "returned"
  /\ UNCHANGED <<rev, error, bytecode, constants, netVars, textVars, calls, workerVars>>

(***************************************************************************)
(* NetBots input graphs.                                                   *)
(***************************************************************************)
\* null, where the parser leaves a child out (alternate: null).
Null == [type |-> "null"]

IdSeq == <<"A", "B", "C">>
Ids   == Range(IdSeq)

\* block.config.<key>; a key the config lacks reads as undefined.
Undefined == "undefined"
Get(obj, key) == IF key \in DOMAIN obj THEN obj[key] ELSE Undefined
HasConfig(block) == "config" \in DOMAIN block

\* The blocks that do not branch carry no config, as in
\* {id:"A",type:"start"}, {id:"B",type:"end"}.
PlainType(i) == IF i = 1 THEN "start" ELSE "end"
PlainBlock(i) == [id |-> IdSeq[i], type |-> PlainType(i)]

\* The configs of an if or loop block: both targets over all ids (declared or
\* not), one target only, and none.  The code throws on the missing target
\* before it reads the one that is there, so that one takes one value.
BranchConfigs(type) ==
  LET keys == IF type = "if" THEN <<"trueTarget", "falseTarget">>
                             ELSE <<"bodyStart", "exitTarget">>
  IN  [{keys[1], keys[2]} -> Ids]
      \cup {[k \in {keys[1]} |-> IdSeq[1]], [k \in {keys[2]} |-> IdSeq[1]],
            [k \in {} |-> IdSeq[1]]}

BranchBlocks(i) ==
  UNION {   {[id |-> IdSeq[i], type |-> t, config |-> c] : c \in BranchConfigs(t)}
       \cup {[id |-> IdSeq[i], type |-> t]}
       : t \in {"if", "loop"} }

IsBranch(block) == block.type \in {"if", "loop"}

\* The lists of n blocks, ids in order, at most branches of them if/loop.
RECURSIVE ListsOfLength(_, _)
ListsOfLength(n, branches) ==
  IF n = 0 THEN {<<>>}
  ELSE { Append(bs, PlainBlock(n)) : bs \in ListsOfLength(n - 1, branches) }
       \cup (IF branches = 0 THEN {}
             ELSE { Append(bs, b) : bs \in ListsOfLength(n - 1, branches - 1),
                                    b \in BranchBlocks(n) })

BlockLists == UNION {ListsOfLength(n, MaxBranch) : n \in 1..Len(IdSeq)}

\* Every pair of ids, in a fixed order; a graph's connections are a
\* subsequence of it (connections to ids the graph does not declare included).
RECURSIVE PairsFrom(_, _)
PairsFrom(i, j) ==
  IF i > Len(IdSeq) THEN <<>>
  ELSE IF j > Len(IdSeq) THEN PairsFrom(i + 1, 1)
  ELSE <<[from |-> IdSeq[i], to |-> IdSeq[j]]>> \o PairsFrom(i, j + 1)
AllPairs == PairsFrom(1, 1)

DistinctConnections ==
  { SelectSeq(AllPairs, LAMBDA c : c \in S) :
      S \in {T \in SUBSET Range(AllPairs) : Cardinality(T) <= MaxConns} }

\* ... and the lists that hold one connection twice.
ConnectionLists ==
  DistinctConnections \cup
  { Append(cs, cs[1]) : cs \in {d \in DistinctConnections : Len(d) = 1} }

Graph(bs, cs) == [blocks |-> bs, connections |-> cs]
NoGraph == [blocks |-> <<>>, connections |-> <<>>]

(***************************************************************************)
(* generateNetworkBytecode(program).                                       *)
(***************************************************************************)
ErrUnknownFrom    == "connection from unknown block"
ErrUnknownTo      == "connection to unknown block"
ErrDuplicate      == "duplicate connection"
ErrNoStart        == "no start block (block with no incoming edges)"
ErrMultipleStart  == "multiple start blocks"
ErrIfConnections  == "If block must have exactly 2 outgoing connections"
ErrIfConfig       == "If block must specify trueTarget and falseTarget in config"
ErrIfTarget       == "If block has invalid true/false target"
ErrLoopConfig     == "Loop block must specify bodyStart and exitTarget in config"
ErrMultipleSucc   == "Block has multiple successors; only if/loop blocks may branch"
ErrNotPlaced      == "Jump target not placed"
ErrOutOfRange     == "Jump offset out of range"
ErrTypeError      == "TypeError"

\* blockMap.get(id)
BlockOf(id) == CHOOSE b \in Range(program.blocks) : b.id = id

\* connections.forEach(...): the maps after connection i and those before
\* it, or the error the first bad connection throws.
RECURSIVE AddConnections(_, _, _)
AddConnections(conns, i, acc) ==
  IF acc.error # NoError \/ i > Len(conns) THEN acc
  ELSE LET conn == conns[i] IN
       IF conn.from \notin blockIds' THEN [acc EXCEPT !.error = ErrUnknownFrom]
       ELSE IF conn.to \notin blockIds' THEN [acc EXCEPT !.error = ErrUnknownTo]
       ELSE IF conn.to \in Range(acc.successors[conn.from])
            THEN [acc EXCEPT !.error = ErrDuplicate]
       ELSE AddConnections(conns, i + 1,
              [acc EXCEPT !.successors[conn.from] = Append(@, conn.to),
                          !.predecessors[conn.to] = @ \cup {conn.from}])

\* blocks.forEach(...) and connections.forEach(...): build the maps.
ValidateGraph ==
  /\ UNCHANGED <<textVars, outVars>>
  /\ pc = "validate"
  /\ blockIds' = {b.id : b \in Range(program.blocks)}
  /\ LET r == AddConnections(program.connections, 1,
                [error |-> NoError,
                 successors |-> [id \in blockIds' |-> <<>>],
                 predecessors |-> [id \in blockIds' |-> {}]])
     IN  /\ successors' = r.successors
         /\ predecessors' = r.predecessors
         /\ error' = r.error
         /\ pc' = IF r.error = NoError THEN "entry" ELSE "failed"
  /\ UNCHANGED <<rev, bytecode, constants, program, startId, blockConstIdx,
                 blockStartPos, jumpPatches, placed, pending>>

\* blocks.filter(b => predecessors.get(b.id).size === 0)
StartBlocks == SelectSeq(program.blocks, LAMBDA b : predecessors[b.id] = {})

StartErrorOnlyNone(n) == IF n = 0 THEN ErrNoStart ELSE NoError

\* The two checks on startBlocks.length.
StartError(n) ==
  IF n = 0 THEN ErrNoStart ELSE IF n > 1 THEN ErrMultipleStart ELSE NoError

\* The entry block is found; then one constant { type, config } per block (a
\* fresh object each, so addConstant never finds it in constMap), and the
\* layout state is set up.
FindStart ==
  /\ UNCHANGED <<textVars, outVars>>
  /\ pc = "entry"
  /\ LET e == StartError(Len(StartBlocks)) IN
       IF e # NoError
       THEN /\ error' = e
            /\ pc' = "failed"
            /\ UNCHANGED <<constants, startId, blockConstIdx, pending>>
       ELSE /\ startId' = StartBlocks[1].id
            /\ constants' = [i \in DOMAIN program.blocks |->
                  [k |-> "object", v |-> i, type |-> program.blocks[i].type,
                   config |-> IF HasConfig(program.blocks[i])
                              THEN program.blocks[i].config
                              ELSE [z \in {} |-> Undefined]]]
            /\ blockConstIdx' = [id \in blockIds |->
                  (CHOOSE i \in DOMAIN program.blocks : program.blocks[i].id = id) - 1]
            /\ pending' = <<startId'>>
            /\ pc' = "layout"
            /\ error' = NoError
  /\ UNCHANGED <<rev, bytecode, program, blockIds, successors, predecessors,
                 blockStartPos, jumpPatches, placed>>

LayoutSkipKeeps ==
  /\ pc = "layout"
  /\ pending # <<>>
  /\ Head(pending) \in placed
  /\ UNCHANGED vars

\* const id = pending.shift(); if (placed.has(id)) continue;
LayoutSkip ==
  /\ UNCHANGED <<textVars, outVars>>
  /\ pc = "layout"
  /\ pending # <<>>
  /\ Head(pending) \in placed
  /\ pending' = Tail(pending)
  /\ UNCHANGED <<common, program, blockIds, successors, predecessors, startId,
                 blockConstIdx, blockStartPos, jumpPatches, placed>>

\* if (!placed.has(x)) pending.unshift(x)
Unshift(q, x, done) == IF x \in done THEN q ELSE <<x>> \o q
\* if (!placed.has(x)) pending.push(x)
Push(q, x, done) == IF x \in done THEN q ELSE Append(q, x)

\* bytecode.push(EXEC_BLOCK); the four bytes of constIdx
ExecBlockBytes(r, constIdx) == <<NetOp(r, "EXEC_BLOCK")>> \o U32Bytes(constIdx)

placedHasNever(done, nextId) == FALSE

\* placed.has(nextId), in the iteration that has added id to placed
placedHas(done, nextId) == nextId \in done

\* One iteration of the layout loop that places block id: the state it
\* leaves, as [error, bytecode, jumpPatches, pending].
PlaceBlock(id) ==
  LET code1  == bytecode \o ExecBlockBytes(rev, blockConstIdx[id])
      succ   == successors[id]
      block  == BlockOf(id)
      done   == placed \cup {id}
      rest   == Tail(pending)
      here   == Len(code1)
      jump(op) == code1 \o <<NetOp(rev, op), 0, 0>>
      fail(e)  == [error |-> e, bytecode |-> code1,
                   jumpPatches |-> jumpPatches, pending |-> rest]
  IN
  IF Len(succ) = 0
  THEN [error |-> NoError, bytecode |-> code1 \o <<NetOp(rev, "HALT")>>,
        jumpPatches |-> jumpPatches, pending |-> rest]
  ELSE IF block.type = "if"
  THEN IF Len(succ) # 2 THEN fail(ErrIfConnections)
       ELSE IF ~HasConfig(block) THEN fail(ErrTypeError)
       ELSE LET trueTarget  == Get(block.config, "trueTarget")
                falseTarget == Get(block.config, "falseTarget")
            IN  IF trueTarget = Undefined \/ falseTarget = Undefined
                THEN fail(ErrIfConfig)
                ELSE IF trueTarget \notin blockIds \/ falseTarget \notin blockIds
                THEN fail(ErrIfTarget)
                ELSE [error |-> NoError, bytecode |-> jump("JZ"),
                      jumpPatches |-> Append(jumpPatches,
                                        [pos |-> here, targetId |-> falseTarget]),
                      pending |-> Push(Unshift(rest, trueTarget, done),
                                       falseTarget, done)]
  ELSE IF block.type = "loop"
  THEN IF ~HasConfig(block) THEN fail(ErrTypeError)
       ELSE LET bodyStart  == Get(block.config, "bodyStart")
                exitTarget == Get(block.config, "exitTarget")
            IN  IF bodyStart = Undefined \/ exitTarget = Undefined
                THEN fail(ErrLoopConfig)
                ELSE [error |-> NoError, bytecode |-> jump("JZ"),
                      jumpPatches |-> Append(jumpPatches,
                                        [pos |-> here, targetId |-> exitTarget]),
                      pending |-> Push(Unshift(rest, bodyStart, done),
                                       exitTarget, done)]
  ELSE IF Len(succ) > 1 THEN fail(ErrMultipleSucc)
       ELSE LET nextId == succ[1] IN
            IF placedHas(done, nextId)
            THEN [error |-> NoError, bytecode |-> jump("JMP"),
                  jumpPatches |-> Append(jumpPatches,
                                    [pos |-> here, targetId |-> nextId]),
                  pending |-> rest]
            ELSE [error |-> NoError, bytecode |-> code1,
                  jumpPatches |-> jumpPatches, pending |-> <<nextId>> \o rest]

\* NBO1: the iteration for a declared block that is not placed yet.
LayoutPlace ==
  /\ UNCHANGED <<textVars, outVars>>
  /\ pc = "layout"
  /\ rev = "NBO1"
  /\ pending # <<>>
  /\ Head(pending) \notin placed
  /\ Head(pending) \in blockIds
  /\ LET id == Head(pending)
         r  == PlaceBlock(id)
     IN  /\ placed' = placed \cup {id}
         /\ blockStartPos' = [x \in DOMAIN blockStartPos \cup {id} |->
                               IF x = id THEN Len(bytecode) ELSE blockStartPos[x]]
         /\ bytecode' = r.bytecode
         /\ jumpPatches' = r.jumpPatches
         /\ pending' = r.pending
         /\ error' = r.error
         /\ pc' = IF r.error = NoError THEN "layout" ELSE "failed"
  /\ UNCHANGED <<rev, constants, program, blockIds, successors, predecessors,
                 startId, blockConstIdx>>

\* NBO1: a loop block's bodyStart or exitTarget that names no declared block
\* reaches the worklist; blockConstIdx.get(id) is undefined, whose bytes are
\* four zeros, and Array.from(successors.get(id)) throws.
LayoutUnknown ==
  /\ UNCHANGED <<textVars, outVars>>
  /\ pc = "layout"
  /\ rev = "NBO1"
  /\ pending # <<>>
  /\ Head(pending) \notin placed
  /\ Head(pending) \notin blockIds
  /\ LET id == Head(pending) IN
       /\ placed' = placed \cup {id}
       /\ blockStartPos' = [x \in DOMAIN blockStartPos \cup {id} |->
                             IF x = id THEN Len(bytecode) ELSE blockStartPos[x]]
       /\ bytecode' = bytecode \o ExecBlockBytes(rev, 0)
       /\ pending' = Tail(pending)
  /\ error' = ErrTypeError
  /\ pc' = "failed"
  /\ UNCHANGED <<rev, constants, program, blockIds, successors, predecessors,
                 startId, blockConstIdx, jumpPatches>>

\* NBO2: bytecode.push(OP.EXEC_BLOCK) pushes undefined, and emitU32(constIdx)
\* is the module-level emitU32(bytecode, value) called with the index as its
\* array: constIdx.push is not a function.
LayoutNoEmit ==
  /\ UNCHANGED <<textVars, outVars>>
  /\ pc = "layout"
  /\ rev = "NBO2"
  /\ pending # <<>>
  /\ Head(pending) \notin placed
  /\ LET id == Head(pending) IN
       /\ placed' = placed \cup {id}
       /\ blockStartPos' = [x \in DOMAIN blockStartPos \cup {id} |->
                             IF x = id THEN Len(bytecode) ELSE blockStartPos[x]]
       /\ bytecode' = Append(bytecode, NetOp(rev, "EXEC_BLOCK"))
       /\ pending' = Tail(pending)
  /\ error' = ErrTypeError
  /\ pc' = "failed"
  /\ UNCHANGED <<rev, constants, program, blockIds, successors, predecessors,
                 startId, blockConstIdx, jumpPatches>>

PatchOffsetFromOperand(targetPos, patchPos) == targetPos - (patchPos + 2)

\* const offset = targetPos - (patchPos + 3)
PatchOffset(targetPos, patchPos) == targetPos - (patchPos + 3)

\* jumpPatches.forEach(...): the byte code with patches i.. resolved, or the
\* error the first bad patch throws.
RECURSIVE ResolvePatches(_, _, _)
ResolvePatches(patches, i, acc) ==
  IF acc.error # NoError \/ i > Len(patches) THEN acc
  ELSE LET patch == patches[i] IN
       IF patch.targetId \notin DOMAIN blockStartPos
       THEN [acc EXCEPT !.error = ErrNotPlaced]
       ELSE LET offset == PatchOffset(blockStartPos[patch.targetId], patch.pos) IN
            IF offset < -32768 \/ offset > 32767
            THEN [acc EXCEPT !.error = ErrOutOfRange]
            ELSE ResolvePatches(patches, i + 1,
                   [acc EXCEPT !.bytecode = WriteU16(@, patch.pos + 1, offset)])

\* The worklist is empty: resolve the patches and return.
PatchJumps ==
  /\ UNCHANGED <<textVars, outVars>>
  /\ pc = "layout"
  /\ pending = <<>>
  /\ LET r == ResolvePatches(jumpPatches, 1, [error |-> NoError, bytecode |-> bytecode])
     IN  /\ bytecode' = r.bytecode
         /\ error' = r.error
         /\ pc' = IF r.error = NoError THEN "done" ELSE "failed"
  /\ UNCHANGED <<rev, constants, netVars>>

NoMap == [x \in {} |-> 0]

InitNet ==
  /\ rev \in {"NBO1", "NBO2"}
  /\ pc = "validate"
  /\ error = NoError
  /\ bytecode = <<>>
  /\ constants = <<>>
  /\ \E bs \in BlockLists, cs \in ConnectionLists : program = Graph(bs, cs)
  /\ blockIds = {}
  /\ successors = NoMap
  /\ predecessors = NoMap
  /\ startId = Undefined
  /\ blockConstIdx = NoMap
  /\ blockStartPos = NoMap
  /\ jumpPatches = <<>>
  /\ placed = {}
  /\ pending = <<>>
  /\ source = <<>>
  /\ lexPos = 0
  /\ tokens = <<>>
  /\ ast = Null
  /\ ifMarks = <<>>
  /\ loopMarks = <<>>
  /\ marks = <<>>
  /\ loopStack = <<>>
  /\ errors = <<>>
  /\ constLog = <<>>
  /\ binary = <<>>
  /\ calls = <<>>
  /\ NoWorker

NextNet ==
  \/ ValidateGraph
  \/ FindStart
  \/ LayoutSkip
  \/ LayoutPlace
  \/ LayoutUnknown
  \/ LayoutNoEmit
  \/ PatchJumps
  \/ AssembleBinary

SpecNet == InitNet /\ [][NextNet]_vars

\* generateNetworkBytecode(program) is called with a graph.
CallNetwork ==
  /\ pc = "call"
  /\ \E bs \in BlockLists, cs \in ConnectionLists : program' = Graph(bs, cs)
  /\ pc' = "validate"
  /\ UNCHANGED <<rev, error, bytecode, constants, blockIds, successors, predecessors,
                 startId, blockConstIdx, blockStartPos, jumpPatches, placed, pending,
                 textVars, outVars>>

InitNetLive ==
  /\ rev \in {"NBO1", "NBO2"}
  /\ pc = "call"
  /\ error = NoError
  /\ bytecode = <<>>
  /\ constants = <<>>
  /\ program = NoGraph
  /\ blockIds = {}
  /\ successors = NoMap
  /\ predecessors = NoMap
  /\ startId = Undefined
  /\ blockConstIdx = NoMap
  /\ blockStartPos = NoMap
  /\ jumpPatches = <<>>
  /\ placed = {}
  /\ pending = <<>>
  /\ source = <<>>
  /\ lexPos = 0
  /\ tokens = <<>>
  /\ ast = Null
  /\ ifMarks = <<>>
  /\ loopMarks = <<>>
  /\ marks = <<>>
  /\ loopStack = <<>>
  /\ errors = <<>>
  /\ constLog = <<>>
  /\ binary = <<>>
  /\ calls = <<>>
  /\ NoWorker

\* The steps of generateNetworkBytecode alone.
NextNetLive ==
  \/ CallNetwork
  \/ ValidateGraph
  \/ FindStart
  \/ LayoutSkip
  \/ LayoutPlace
  \/ LayoutUnknown
  \/ LayoutNoEmit
  \/ PatchJumps

\* The call is one thread of control that runs until it returns or throws:
\* a step that can be taken is taken.
SpecNetLive == InitNetLive /\ [][NextNetLive]_vars /\ WF_vars(NextNetLive)

(***************************************************************************)
(* generateBytecode(ast): the textual emitter.                             *)
(***************************************************************************)
MaxDepth == 2    \* statements nest at most this deep in a program

\* The byte literals of generateBytecode in lib/compiler.js (PBO1).
PBO1_OP ==
  [ PUSH_CONST |-> 1, POP |-> 2, LOAD_VAR |-> 3, STORE_VAR |-> 4, ADD |-> 5,
    JMP |-> 18, JZ |-> 19, HALT |-> 255 ]

TextOp(r) == IF r = "PBO1" THEN PBO1_OP ELSE OP

ErrBreakOutside    == "break outside loop"
ErrContinueOutside == "continue outside loop"
ErrUnsupported     == "Unsupported node type for bytecode generation"

\* JavaScript values, tagged with their typeof.
Num(n) == [k |-> "number", v |-> n]
Str(x) == [k |-> "string", v |-> x]
UndefinedValue == [k |-> "undefined", v |-> 0]
NullValue      == [k |-> "null", v |-> 0]

\* AST nodes as the parser builds them.
Identifier(name) == [type |-> "Identifier", name |-> name]
Literal(value)   == [type |-> "Literal", value |-> value]
ExpressionStatement(e) == [type |-> "ExpressionStatement", expression |-> e]
BlockStatement(body)   == [type |-> "BlockStatement", body |-> body]
BreakStatement    == [type |-> "BreakStatement"]
ContinueStatement == [type |-> "ContinueStatement"]
VariableDeclaration(name, init) ==
  [type |-> "VariableDeclaration", kind |-> "let",
   declarations |-> <<[id |-> Identifier(name), init |-> init]>>]
BinaryExpression(operator, left, right) ==
  [type |-> "BinaryExpression", operator |-> operator, left |-> left, right |-> right]
AssignmentExpression(operator, left, right) ==
  [type |-> "AssignmentExpression", operator |-> operator, left |-> left,
   right |-> right]
IfStatement(test, consequent, alternate) ==
  [type |-> "IfStatement", test |-> test, consequent |-> consequent,
   alternate |-> alternate]
WhileStatement(test, body) == [type |-> "WhileStatement", test |-> test, body |-> body]
ForStatement(test, update, body) ==
  [type |-> "ForStatement", init |-> Null, test |-> test, update |-> update,
   body |-> body]
ForInStatement(left, right, body) ==
  [type |-> "ForInStatement", left |-> left, right |-> right, body |-> body]
FunctionDeclaration(name, params, body) ==
  [type |-> "FunctionDeclaration", name |-> name, params |-> params, body |-> body,
   async |-> FALSE]
MemberExpression(object, prop) ==
  [type |-> "MemberExpression", object |-> object, property |-> Identifier(prop),
   computed |-> FALSE, optional |-> FALSE]
TryStatement(block, catchClause, finalizer) ==
  [type |-> "TryStatement", block |-> block, catchClause |-> catchClause,
   finalizer |-> finalizer]
CatchClause(name, body) == [param |-> Identifier(name), body |-> body]
SwitchCase(test, consequent) ==
  [type |-> "SwitchCase", test |-> test, consequent |-> consequent]
SwitchStatement(discriminant, cases) ==
  [type |-> "SwitchStatement", discriminant |-> discriminant, cases |-> cases]
LogicalExpression(operator, left, right) ==
  [type |-> "LogicalExpression", operator |-> operator, left |-> left, right |-> right]
UpdateExpression(operator, argument, prefix) ==
  [type |-> "UpdateExpression", operator |-> operator, argument |-> argument,
   prefix |-> prefix]
TemplateLiteral(quasis, expressions) ==
  [type |-> "TemplateLiteral", quasis |-> quasis, expressions |-> expressions]
Program(body) == [type |-> "Program", body |-> body]

ConstIndexAlwaysNew(pool, value) == Len(pool)

\* addConstant(value): the index of value in the pool, a new one if the
\* constMap does not hold it.
ConstIndex(pool, value) ==
  IF \E i \in DOMAIN pool : pool[i] = value
  THEN (CHOOSE i \in DOMAIN pool : pool[i] = value /\ \A j \in 1..(i - 1) : pool[j] # value) - 1
  ELSE Len(pool)

AddConstant(g, value) ==
  LET idx == ConstIndex(g.constants, value)
      g1  == [g EXCEPT !.constLog = Append(@, [value |-> value, idx |-> idx])]
  IN  IF idx = Len(g.constants)
      THEN [g1 EXCEPT !.constants = Append(@, value)]
      ELSE g1

\* bytecode.push(...) of the bytes, unless an Error is on its way up.
Emit(g, bytes) ==
  IF g.error # NoError THEN g ELSE [g EXCEPT !.bytecode = @ \o bytes]

\* addConstant(value); bytecode.push(op); emitU32(idx)
EmitConstOp(g, op, value) ==
  Emit(AddConstant(g, value), <<op>> \o U32Bytes(ConstIndex(g.constants, value)))

\* bytecode[pos + 1] = (offset >> 8) & 0xFF; bytecode[pos + 2] = offset & 0xFF
\* with offset = target - (pos + 3), for each pos of a patch list.
RECURSIVE PatchAll(_, _, _, _)
PatchAll(code, patches, i, target) ==
  IF i > Len(patches) THEN code
  ELSE PatchAll(WriteU16(code, patches[i] + 1, target - (patches[i] + 3)),
                patches, i + 1, target)

CloseLoopBreaksOnly(g, afterLoop, continueTarget) ==
  IF g.error # NoError THEN g
  ELSE LET loop == g.loopStack[Len(g.loopStack)] IN
       [g EXCEPT !.loopStack = SubSeq(@, 1, Len(@) - 1),
                 !.bytecode = PatchAll(@, loop.breakPatches, 1, afterLoop)]

\* loopStack.pop() and the two forEach over its patch lists.
CloseLoop(g, afterLoop, continueTarget) ==
  IF g.error # NoError THEN g
  ELSE LET loop == g.loopStack[Len(g.loopStack)] IN
       [g EXCEPT !.loopStack = SubSeq(@, 1, Len(@) - 1),
                 !.bytecode = PatchAll(PatchAll(@, loop.breakPatches, 1, afterLoop),
                                       loop.continuePatches, 1, continueTarget)]

\* loopStack.push({ start, end: null, breakPatches: [], continuePatches: [] })
OpenLoop(g, loopStart) ==
  [g EXCEPT !.loopStack =
      Append(@, [start |-> loopStart, breakPatches |-> <<>>, continuePatches |-> <<>>])]

\* PBO3: const elseOffset = jmpIdx - (jzIdx + 3)
\* PBO1: const elseOffset = bytecode.length - jzIndex - 3, after the JMP
ElseOffset(r, jzIdx, jmpIdx, length) ==
  IF r = "PBO1" THEN length - jzIdx - 3 ELSE jmpIdx - (jzIdx + 3)

\* const backOffset = loopStart - (bytecode.length + 3), after the JMP byte
BackOffset(loopStart, length) == loopStart - (length + 3)

\* const jzOffset = afterLoop - (jzIdx + 3)
ExitOffset(afterLoop, jzIdx) == afterLoop - (jzIdx + 3)

\* for-in: const jzOffset = afterLoop - (jzPlaceholderPos - 2)
ForInExitOffset(afterLoop, jzPlaceholderPos) == afterLoop - (jzPlaceholderPos - 2)

\* bytecode[pos] = hi; bytecode[pos + 1] = lo, unless an Error is on its way up
Patch(g, pos, offset) ==
  IF g.error # NoError THEN g ELSE [g EXCEPT !.bytecode = WriteU16(@, pos, offset)]

Throw(g, message) == [g EXCEPT !.error = message]

RECURSIVE generate(_, _, _)

\* case 'IfStatement'
generateIf(r, node, g) ==
  LET g1    == generate(r, node.test, g)
      jzIdx == Len(g1.bytecode)
      g2    == Emit(g1, <<TextOp(r).JZ, 0, 0>>)
      g3    == generate(r, node.consequent, g2)
  IN  IF node.alternate # Null
      THEN LET jmpIdx   == Len(g3.bytecode)
               g4       == Emit(g3, <<TextOp(r).JMP, 0, 0>>)
               g5       == Patch(g4, jzIdx + 1,
                                 ElseOffset(r, jzIdx, jmpIdx, Len(g4.bytecode)))
               altStart == Len(g5.bytecode)
               g6       == generate(r, node.alternate, g5)
               g7       == Patch(g6, jmpIdx + 1, Len(g6.bytecode) - (jmpIdx + 3))
           IN  [g7 EXCEPT !.ifMarks = Append(@,
                  [jzIdx |-> jzIdx, jmpIdx |-> jmpIdx, altStart |-> altStart,
                   end |-> Len(g6.bytecode)])]
      ELSE LET g4 == Patch(g3, jzIdx + 1, Len(g3.bytecode) - (jzIdx + 3))
           IN  [g4 EXCEPT !.ifMarks = Append(@,
                  [jzIdx |-> jzIdx, jmpIdx |-> -1, altStart |-> -1,
                   end |-> Len(g3.bytecode)])]

\* The end of the three loops: the JMP back, the patch of the exit jump
\* (its operand is at exitPos; kind says which of the two offsets it gets),
\* and the loop's break and continue patches (PBO1 keeps no loopStack).
generateLoopEnd(r, g, kind, loopStart, exitPos, continueTarget) ==
  LET g1        == Emit(g, <<TextOp(r).JMP>>)
      operand   == Len(g1.bytecode)
      g2        == Emit(g1, U16Bytes(BackOffset(loopStart, Len(g1.bytecode))))
      afterLoop == Len(g2.bytecode)
      g3        == Patch(g2, exitPos,
                         IF kind = "ForInStatement" THEN ForInExitOffset(afterLoop, exitPos)
                                  ELSE ExitOffset(afterLoop, exitPos - 1))
      g4        == IF r = "PBO1" THEN g3 ELSE CloseLoop(g3, afterLoop, continueTarget)
      loop      == IF r = "PBO1" \/ g3.error # NoError
                   THEN [breakPatches |-> <<>>, continuePatches |-> <<>>]
                   ELSE g3.loopStack[Len(g3.loopStack)]
  IN  IF g4.error # NoError THEN g4
      ELSE [g4 EXCEPT !.loopMarks = Append(@,
              [kind |-> kind, loopStart |-> loopStart, operand |-> operand,
               afterLoop |-> afterLoop, continueTarget |-> continueTarget,
               exitPos |-> exitPos,
               breakPatches |-> loop.breakPatches,
               continuePatches |-> loop.continuePatches])]

\* case 'WhileStatement'
generateWhile(r, node, g) ==
  LET loopStart == Len(g.bytecode)
      g1    == generate(r, node.test, IF r = "PBO1" THEN g ELSE OpenLoop(g, loopStart))
      jzIdx == Len(g1.bytecode)
      g2    == Emit(g1, <<TextOp(r).JZ, 0, 0>>)
      g3    == generate(r, node.body, g2)
  IN  generateLoopEnd(r, g3, node.type, loopStart, jzIdx + 1, Len(g3.bytecode))

\* case 'ForStatement' (no init)
generateFor(r, node, g) ==
  LET loopStart == Len(g.bytecode)
      g0    == OpenLoop(g, loopStart)
      g1    == IF node.test # Null THEN generate(r, node.test, g0)
               ELSE EmitConstOp(g0, OP.PUSH_CONST, [k |-> "boolean", v |-> 1])
      jzIdx == Len(g1.bytecode)
      g2    == Emit(g1, <<OP.JZ, 0, 0>>)
      g3    == generate(r, node.body, g2)
      continueTarget == Len(g3.bytecode)
      g4    == generate(r, node.update, g3)
  IN  generateLoopEnd(r, g4, node.type, loopStart, jzIdx + 1, continueTarget)

\* case 'ForInStatement' with an Identifier on the left
generateForIn(r, node, g) ==
  LET c1 == AddConstant(g, Str("$iterator"))
      c2 == AddConstant(c1, Str("next"))
      c3 == AddConstant(c2, Str("done"))
      c4 == AddConstant(c3, Str("value"))
      g1 == generate(r, node.right, c4)
      g2 == EmitConstOp(Emit(g1, <<OP.GET_ITERATOR>>), OP.STORE_VAR, Str("$iterator"))
      loopStart == Len(g2.bytecode)
      g3 == EmitConstOp(OpenLoop(g2, loopStart), OP.LOAD_VAR, Str("$iterator"))
      g4 == EmitConstOp(g3, OP.GET_PROP, Str("next"))
      g5 == EmitConstOp(g4, OP.LOAD_VAR, Str("$iterator"))
      g6 == Emit(g5, <<OP.CALL>> \o U32Bytes(1) \o <<OP.DUP>>)
      g7 == Emit(EmitConstOp(g6, OP.GET_PROP, Str("done")), <<OP.JNZ>>)
      jzPlaceholderPos == Len(g7.bytecode)
      g8 == EmitConstOp(Emit(g7, U16Bytes(0)), OP.GET_PROP, Str("value"))
      g9 == EmitConstOp(g8, OP.STORE_VAR, Str(node.left.name))
      g10 == generate(r, node.body, g9)
  IN  generateLoopEnd(r, g10, node.type, loopStart, jzPlaceholderPos, Len(g10.bytecode))

\* case 'BreakStatement' / case 'ContinueStatement'
generateJumpOut(node, g) ==
  IF g.loopStack = <<>>
  THEN Throw(g, IF node.type = "BreakStatement" THEN ErrBreakOutside
                                                ELSE ErrContinueOutside)
  ELSE LET jmpIdx == Len(g.bytecode)
           g1     == Emit(g, <<OP.JMP, 0, 0>>)
       IN  IF node.type = "BreakStatement"
           THEN [g1 EXCEPT !.loopStack[Len(g.loopStack)].breakPatches = Append(@, jmpIdx)]
           ELSE [g1 EXCEPT !.loopStack[Len(g.loopStack)].continuePatches = Append(@, jmpIdx)]

\* case 'VariableDeclaration', for its one declarator, an Identifier
generateVariableDeclaration(r, node, g) ==
  LET decl == node.declarations[1]
      g1   == IF decl.init # Null THEN generate(r, decl.init, g)
              ELSE EmitConstOp(g, TextOp(r).PUSH_CONST,
                               IF r = "PBO1" THEN NullValue ELSE UndefinedValue)
  IN  EmitConstOp(g1, TextOp(r).STORE_VAR, Str(decl.id.name))

\* case 'FunctionDeclaration', not async and without parameters; the body
\* is emitted with the loopStack of the place of the declaration.
generateFunction(r, node, g) ==
  LET g1 == Emit(g, <<OP.ENTER_FUNC>>)
      g2 == generate(r, node.body, g1)
      g3 == EmitConstOp(g2, OP.PUSH_CONST, UndefinedValue)
  IN  Emit(g3, <<OP.RETURN>>)

\* case 'TemplateLiteral': the first quasi, then for each expression its
\* code, the next quasi and two ADD. A quasi is its cooked value; the node
\* of type "TemplateLiteral.for" holds what the for loop has yet to emit.
generateTemplate(r, node, g) ==
  IF node.type = "TemplateLiteral"
  THEN LET g1 == EmitConstOp(g, OP.PUSH_CONST, Str(node.quasis[1]))
       IN  IF node.expressions = <<>> THEN g1
           ELSE generate(r, [node EXCEPT !.type = "TemplateLiteral.for",
                                         !.quasis = Tail(@)], g1)
  ELSE IF node.expressions = <<>> THEN g
  ELSE LET g1 == generate(r, Head(node.expressions), g)
           g2 == EmitConstOp(g1, OP.PUSH_CONST, Str(node.quasis[1]))
           g3 == Emit(g2, <<OP.ADD, OP.ADD>>)
       IN  generate(r, [node EXCEPT !.quasis = Tail(@), !.expressions = Tail(@)], g3)

\* case 'TryStatement', the catch parameter an Identifier; -1 stands for the
\* null of afterTryJmp, catchStart and finallyStart.
generateTry(r, node, g) ==
  LET g1 == generate(r, node.block, g)
      tryEnd == Len(g1.bytecode)
      afterTryJmp == IF node.finalizer # Null THEN tryEnd ELSE -1
      g2 == IF node.finalizer # Null THEN Emit(g1, <<OP.JMP, 0, 0>>) ELSE g1
      catchStart == IF node.catchClause # Null THEN Len(g2.bytecode) ELSE -1
      g3 == IF node.catchClause # Null
            THEN LET c1 == EmitConstOp(Emit(g2, <<OP.CATCH>>), OP.STORE_VAR,
                                       Str(node.catchClause.param.name))
                     c2 == Emit(generate(r, node.catchClause.body, c1), <<OP.END_CATCH>>)
                 IN  IF node.finalizer # Null THEN Emit(c2, <<OP.JMP, 0, 0>>) ELSE c2
            ELSE g2
      finallyStart == IF node.finalizer # Null THEN Len(g3.bytecode) ELSE -1
      g4 == IF node.finalizer # Null
            THEN generate(r, node.finalizer, Emit(g3, <<OP.FINALLY>>))
            ELSE g3
      target == IF catchStart # -1 THEN catchStart ELSE finallyStart
      g5 == IF afterTryJmp # -1
            THEN Patch(g4, afterTryJmp + 1, target - (afterTryJmp + 3))
            ELSE g4
  IN  IF g5.error # NoError THEN g5
      ELSE [g5 EXCEPT !.marks = Append(@,
              [kind |-> "TryStatement", tryEnd |-> tryEnd, catchStart |-> catchStart,
               finallyStart |-> finallyStart, end |-> Len(g4.bytecode)])]

\* case 'LogicalExpression', operator '&&', '||' or '??'
generateLogical(r, node, g) ==
  LET g1    == generate(r, node.left, g)
      jzIdx == Len(g1.bytecode)
      g2    == Emit(g1, <<IF node.operator = "||" THEN OP.JNZ ELSE OP.JZ, 0, 0>>)
      g3    == generate(r, node.right, g2)
      g4    == Patch(g3, jzIdx + 1, Len(g3.bytecode) - (jzIdx + 3))
  IN  IF g4.error # NoError THEN g4
      ELSE [g4 EXCEPT !.marks = Append(@,
              [kind |-> "LogicalExpression", operator |-> node.operator,
               leftEnd |-> jzIdx, end |-> Len(g3.bytecode)])]

\* case 'UpdateExpression', the argument an Identifier
generateUpdate(r, node, g) ==
  LET g1 == EmitConstOp(g, OP.LOAD_VAR, Str(node.argument.name))
      g2 == IF ~node.prefix THEN Emit(g1, <<OP.DUP>>) ELSE g1
      g3 == EmitConstOp(g2, OP.PUSH_CONST, Num(1))
      g4 == Emit(g3, <<IF node.operator = "++" THEN OP.ADD ELSE OP.SUB>>)
  IN  Emit(g4, <<OP.STORE_VAR>>
               \o U32Bytes(ConstIndex(g4.constants, Str(node.argument.name))))

\* case 'SwitchStatement': bytecode.push(OP.LOAD_VAR); emitU32(tempIdx)
LoadSwitch(g) ==
  Emit(g, <<OP.LOAD_VAR>> \o U32Bytes(ConstIndex(g.constants, Str("$switch"))))

\* The first cases.forEach: the comparison of each case that has a test.
\* cmpStart, where the comparison begins, is kept beside jzPos and target.
RECURSIVE switchTests(_, _, _, _, _)
switchTestsNext(r, cases, i, cmpStart, g1, caseJumps) ==
  switchTests(r, cases, i + 1, Emit(g1, <<OP.JZ, 0, 0>>),
              Append(caseJumps, [jzPos |-> Len(g1.bytecode), target |-> i,
                                 cmpStart |-> cmpStart]))

switchTests(r, cases, i, g, caseJumps) ==
  IF i > Len(cases) THEN [g |-> g, caseJumps |-> caseJumps]
  ELSE IF cases[i].test = Null THEN switchTests(r, cases, i + 1, g, caseJumps)
  ELSE switchTestsNext(r, cases, i, Len(g.bytecode),
                       Emit(generate(r, cases[i].test, LoadSwitch(g)), <<OP.EQ>>),
                       caseJumps)

\* caseJumps.forEach(jump => { if (jump.target === i) ... }), after the JMP
\* that follows the body of case i
PatchCase(g1, caseJumps, i) ==
  IF \E k \in DOMAIN caseJumps : caseJumps[k].target = i
  THEN LET jump == caseJumps[CHOOSE k \in DOMAIN caseJumps : caseJumps[k].target = i]
       IN  Patch(g1, jump.jzPos + 1, Len(g1.bytecode) - (jump.jzPos + 3))
  ELSE g1

\* The second cases.forEach: each body, its JMP and the patch of its JZ.
RECURSIVE switchBodies(_, _, _, _, _, _)
switchBodyEnd(r, cases, i, g1, caseJumps, starts) ==
  switchBodies(r, cases, i + 1, PatchCase(g1, caseJumps, i), caseJumps, starts)

switchBodies(r, cases, i, g, caseJumps, starts) ==
  IF i > Len(cases) THEN [g |-> g, caseStartPositions |-> starts]
  ELSE switchBodyEnd(r, cases, i,
         Emit(generate(r, BlockStatement(cases[i].consequent), g), <<OP.JMP, 0, 0>>),
         caseJumps, Append(starts, Len(g.bytecode)))

\* defaultOffset: the indices of the cases without a test
DefaultOffset(cases) ==
  SelectSeq([i \in 1..Len(cases) |-> i], LAMBDA i : cases[i].test = Null)

\* Patch default jump
switchEnd(node, t, defaultJmpPos, b) ==
  LET defaultOffset == DefaultOffset(node.cases)
      target == IF defaultOffset # <<>> THEN b.caseStartPositions[defaultOffset[1]]
                ELSE Len(b.g.bytecode)
      g5 == Patch(b.g, defaultJmpPos + 1, target - (defaultJmpPos + 3))
  IN  IF g5.error # NoError THEN g5
      ELSE [g5 EXCEPT !.marks = Append(@,
              [kind |-> "SwitchStatement", caseJumps |-> t.caseJumps,
               caseStartPositions |-> b.caseStartPositions,
               defaultJmpPos |-> defaultJmpPos, defaultOffset |-> defaultOffset,
               end |-> Len(b.g.bytecode)])]

switchAfterTests(r, node, t) ==
  switchEnd(node, t, Len(t.g.bytecode),
            switchBodies(r, node.cases, 1, Emit(t.g, <<OP.JMP, 0, 0>>), t.caseJumps, <<>>))

\* case 'SwitchStatement'
generateSwitch(r, node, g) ==
  switchAfterTests(r, node,
    switchTests(r, node.cases, 1,
                EmitConstOp(generate(r, node.discriminant, g), OP.STORE_VAR,
                            Str("$switch")),
                <<>>))

\* The code generate(node) has emitted, from the length of g0 to that of g1.
Mark(g0, g1, node) ==
  IF g1.error # NoError THEN g1
  ELSE [g1 EXCEPT !.marks = Append(@,
          [kind |-> node.type, node |-> node, start |-> Len(g0.bytecode),
           end |-> Len(g1.bytecode)])]

\* function generate(node)
generate(r, node, g) ==
  IF g.error # NoError \/ node = Null THEN g
  ELSE IF node.type = "BlockStatement"      \* node.body.forEach(generate)
       THEN IF node.body = <<>> THEN g
            ELSE LET g1 == generate(r, Head(node.body), g)
                 IN  generate(r, BlockStatement(Tail(node.body)), g1)
  ELSE IF node.type = "ExpressionStatement"
       THEN IF node.expression.type \in {"AssignmentExpression", "UpdateExpression"}
            THEN Mark(g, Emit(generate(r, node.expression, g), <<TextOp(r).POP>>), node)
            ELSE Emit(generate(r, node.expression, g), <<TextOp(r).POP>>)
  ELSE IF node.type = "Identifier"
       THEN EmitConstOp(g, TextOp(r).LOAD_VAR, Str(node.name))
  ELSE IF node.type = "Literal"
       THEN EmitConstOp(g, TextOp(r).PUSH_CONST, node.value)
  ELSE IF node.type = "BinaryExpression"
       THEN LET g1 == generate(r, node.left, g)
                g2 == generate(r, node.right, g1)
            IN  Emit(g2, IF node.operator = "+" THEN <<TextOp(r).ADD>> ELSE <<>>)
  ELSE IF node.type = "AssignmentExpression"   \* operator '=', left an Identifier
       THEN EmitConstOp(generate(r, node.right, g), TextOp(r).STORE_VAR,
                        Str(node.left.name))
  ELSE IF node.type = "VariableDeclaration"
       THEN Mark(g, generateVariableDeclaration(r, node, g), node)
  ELSE IF node.type = "IfStatement" THEN generateIf(r, node, g)
  ELSE IF node.type = "WhileStatement" THEN generateWhile(r, node, g)
  ELSE IF r = "PBO1" THEN Throw(g, ErrUnsupported)
  ELSE IF node.type = "ForStatement" THEN generateFor(r, node, g)
  ELSE IF node.type = "ForInStatement" THEN generateForIn(r, node, g)
  ELSE IF node.type = "FunctionDeclaration" THEN generateFunction(r, node, g)
  ELSE IF node.type = "TryStatement" THEN generateTry(r, node, g)
  ELSE IF node.type = "SwitchStatement" THEN generateSwitch(r, node, g)
  ELSE IF node.type = "LogicalExpression" THEN generateLogical(r, node, g)
  ELSE IF node.type = "UpdateExpression" THEN Mark(g, generateUpdate(r, node, g), node)
  ELSE IF node.type \in {"TemplateLiteral", "TemplateLiteral.for"}
  THEN generateTemplate(r, node, g)
  ELSE IF node.type \in {"BreakStatement", "ContinueStatement"}
  THEN generateJumpOut(node, g)
  ELSE Throw(g, ErrUnsupported)

generateBytecodeNoHalt(r, node) ==
  generate(r, BlockStatement(node.body),
    [bytecode |-> <<>>, constants |-> <<>>, loopStack |-> <<>>,
     error |-> NoError, ifMarks |-> <<>>, loopMarks |-> <<>>, marks |-> <<>>,
     constLog |-> <<>>])

\* generateBytecode(ast): case 'Program', from the empty state
generateBytecode(r, node) ==
  Emit(generate(r, BlockStatement(node.body),
         [bytecode |-> <<>>, constants |-> <<>>, loopStack |-> <<>>,
          error |-> NoError, ifMarks |-> <<>>, loopMarks |-> <<>>, marks |-> <<>>,
     constLog |-> <<>>]),
       <<TextOp(r).HALT>>)

\* const { bytecode, constants } = generateBytecode(ast), or its Error
Generated(g) ==
  /\ bytecode' = g.bytecode
  /\ constants' = g.constants
  /\ error' = g.error
  /\ ifMarks' = g.ifMarks
  /\ loopMarks' = g.loopMarks
  /\ marks' = g.marks
  /\ loopStack' = g.loopStack
  /\ constLog' = g.constLog
  /\ pc' = IF g.error = NoError THEN "done" ELSE "failed"

GenerateBytecode ==
  /\ pc = "generate"
  /\ Generated(generateBytecode(rev, ast))
  /\ UNCHANGED <<outVars, rev, netVars, source, lexPos, tokens, ast, errors>>

(***************************************************************************)
(* The programs the emitter is run on: what the parser can build from a    *)
(* source text, up to MaxDepth nested statements.                          *)
(***************************************************************************)
TestExpr == Identifier("console")

Leaves ==
  { ExpressionStatement(TestExpr), ExpressionStatement(Literal(Num(1))),
    BreakStatement, ContinueStatement, BlockStatement(<<>>),
    VariableDeclaration("x", Null) }

RECURSIVE Statements(_)
Statements(depth) ==
  IF depth = 0 THEN Leaves
  ELSE LET inner == Statements(depth - 1) IN
       inner
       \cup { IfStatement(TestExpr, c, a) : c \in inner, a \in Leaves \cup {Null} }
       \cup { WhileStatement(TestExpr, b) : b \in inner }
       \cup { ForStatement(t, u, b) : t \in {Null, TestExpr}, u \in {Null, TestExpr},
                                      b \in inner }
       \cup { ForInStatement(Identifier("x"), TestExpr, b) : b \in inner }
       \cup { BlockStatement(<<b>>) : b \in inner }

Programs ==
  { Program(<<s>>) : s \in Statements(MaxDepth) }
  \cup { Program(<<l, s>>) : l \in Leaves, s \in Statements(MaxDepth - 1) }

InitText ==
  /\ rev \in {"PBO1", "PBO3"}
  /\ pc = "generate"
  /\ error = NoError
  /\ bytecode = <<>>
  /\ constants = <<>>
  /\ program = NoGraph
  /\ blockIds = {}
  /\ successors = NoMap
  /\ predecessors = NoMap
  /\ startId = Undefined
  /\ blockConstIdx = NoMap
  /\ blockStartPos = NoMap
  /\ jumpPatches = <<>>
  /\ placed = {}
  /\ pending = <<>>
  /\ source = <<>>
  /\ lexPos = 0
  /\ tokens = <<>>
  /\ ast \in Programs
  /\ ifMarks = <<>>
  /\ loopMarks = <<>>
  /\ marks = <<>>
  /\ loopStack = <<>>
  /\ errors = <<>>
  /\ constLog = <<>>
  /\ binary = <<>>
  /\ calls = <<>>
  /\ NoWorker

NextText == GenerateBytecode \/ AssembleBinary

SpecText == InitText /\ [][NextText]_vars

(***************************************************************************)
(* Programs of try and switch statements and of expression statements with *)
(* logical and update expressions, nested up to MaxDepth.                   *)
(***************************************************************************)
FlowExprs ==
  { TestExpr }
  \cup { LogicalExpression(op, TestExpr, b) :
           op \in {"&&", "||"},
           b \in {Identifier("x"), LogicalExpression("||", TestExpr, Literal(Num(1)))} }

\* x++, x--, ++x, --x
Updates ==
  { UpdateExpression(op, Identifier("x"), prefix) :
      op \in {"++", "--"}, prefix \in BOOLEAN }

FlowLeaves ==
  { ExpressionStatement(e) : e \in FlowExprs \cup Updates }
  \cup { ExpressionStatement(AssignmentExpression("=", Identifier("x"), e)) :
           e \in Updates \cup {Literal(Num(1))} }
  \cup { BreakStatement, ContinueStatement, BlockStatement(<<>>),
         VariableDeclaration("x", Null) }

Catches    == { Null, CatchClause("e", BlockStatement(<<>>)),
                CatchClause("e", BlockStatement(<<ExpressionStatement(TestExpr)>>)) }
Finalizers == { Null, BlockStatement(<<>>),
                BlockStatement(<<ExpressionStatement(TestExpr)>>) }

\* The case lists of a switch around the statement b.
CaseLists(inner) ==
  LET one     == SwitchCase(Literal(Num(1)), <<ExpressionStatement(TestExpr)>>)
      default == SwitchCase(Null, <<BreakStatement>>)
  IN  { <<>>, <<default, default>> }
      \cup UNION { { <<SwitchCase(Literal(Num(1)), <<b>>)>>,
                     <<SwitchCase(Null, <<b>>)>>,
                     <<SwitchCase(TestExpr, <<b>>), one>>,
                     <<one, SwitchCase(TestExpr, <<>>), default>>,
                     <<default, SwitchCase(TestExpr, <<b, b>>)>> } : b \in inner }

RECURSIVE Flow(_)
Flow(depth) ==
  IF depth = 0 THEN FlowLeaves
  ELSE LET inner == Flow(depth - 1) IN
       inner
       \cup { TryStatement(BlockStatement(<<b>>), c, f) :
                b \in inner, c \in Catches, f \in Finalizers }
       \cup { WhileStatement(TestExpr, b) : b \in inner }
       \cup { SwitchStatement(TestExpr, cases) : cases \in CaseLists(inner) }

FlowPrograms ==
  { Program(<<s>>) : s \in Flow(MaxDepth) }
  \cup { Program(<<l, s>>) : l \in FlowLeaves, s \in Flow(MaxDepth - 1) }

InitFlow ==
  /\ rev = "PBO3"
  /\ pc = "generate"
  /\ error = NoError
  /\ bytecode = <<>>
  /\ constants = <<>>
  /\ program = NoGraph
  /\ blockIds = {}
  /\ successors = NoMap
  /\ predecessors = NoMap
  /\ startId = Undefined
  /\ blockConstIdx = NoMap
  /\ blockStartPos = NoMap
  /\ jumpPatches = <<>>
  /\ placed = {}
  /\ pending = <<>>
  /\ source = <<>>
  /\ lexPos = 0
  /\ tokens = <<>>
  /\ ast \in FlowPrograms
  /\ ifMarks = <<>>
  /\ loopMarks = <<>>
  /\ marks = <<>>
  /\ loopStack = <<>>
  /\ errors = <<>>
  /\ constLog = <<>>
  /\ binary = <<>>
  /\ calls = <<>>
  /\ NoWorker

SpecFlow == InitFlow /\ [][NextText]_vars

(***************************************************************************)
(* Programs with long bodies: a block that holds two copies of a block,    *)
(* MaxDoubling deep, around the statement `console;`.                      *)
(***************************************************************************)
MaxDoubling == 13    \* 2^13 statements of 6 bytes pass 32767 bytes of code

RECURSIVE Doubled(_)
Doubled(d) ==
  IF d = 0 THEN ExpressionStatement(TestExpr)
  ELSE LET b == Doubled(d - 1) IN BlockStatement(<<b, b>>)

\* The statements that jump over or back across a body.
Around(body) ==
  { IfStatement(TestExpr, body, a) : a \in {Null, BreakStatement, BlockStatement(<<>>)} }
  \cup { WhileStatement(TestExpr, body) }
  \cup { ForStatement(t, u, body) : t \in {Null, TestExpr}, u \in {Null, TestExpr} }
  \cup { ForInStatement(Identifier("x"), TestExpr, body) }

InitLong ==
  /\ rev = "PBO3"
  /\ pc = "generate"
  /\ error = NoError
  /\ bytecode = <<>>
  /\ constants = <<>>
  /\ program = NoGraph
  /\ blockIds = {}
  /\ successors = NoMap
  /\ predecessors = NoMap
  /\ startId = Undefined
  /\ blockConstIdx = NoMap
  /\ blockStartPos = NoMap
  /\ jumpPatches = <<>>
  /\ placed = {}
  /\ pending = <<>>
  /\ source = <<>>
  /\ lexPos = 0
  /\ tokens = <<>>
  /\ \E d \in 0..MaxDoubling : \E s \in Around(Doubled(d)) : ast = Program(<<s>>)
  /\ ifMarks = <<>>
  /\ loopMarks = <<>>
  /\ marks = <<>>
  /\ loopStack = <<>>
  /\ errors = <<>>
  /\ constLog = <<>>
  /\ binary = <<>>
  /\ calls = <<>>
  /\ NoWorker

SpecLong == InitLong /\ [][NextText]_vars

(***************************************************************************)
(* compileProgramBot(sourceCode): tokenize, parse, validateSemantics, then *)
(* generateBytecode.  The source is a sequence of characters.              *)
(***************************************************************************)
MaxStatements == 2    \* a source text holds at most this many statements

Whitespace  == {" "}
Digits      == <<"0", "1", "2", "3", "4", "5", "6", "7", "8", "9">>
Letters     == Range(SubSeq(AsciiFrom32, 34, 59)) \cup Range(SubSeq(AsciiFrom97, 1, 26))
IdentStart  == Letters \cup {"_", "$"}              \* /[a-zA-Z_$]/
IdentPart   == IdentStart \cup Range(Digits)        \* /[a-zA-Z0-9_$]/

\* const KEYWORDS
KEYWORDS ==
  { "if", "else", "while", "for", "function", "return",
    "var", "let", "const", "true", "false", "null",
    "import", "export", "from", "default", "as",
    "class", "extends", "super", "constructor",
    "try", "catch", "finally", "throw", "new", "this",
    "typeof", "instanceof", "void", "delete", "in",
    "switch", "case", "break", "continue",
    "async", "await", "yield", "of", "get", "set",
    "static", "implements", "interface", "package", "private",
    "protected", "public", "abstract", "enum", "type",
    "namespace", "module", "declare", "keyof", "readonly" }

\* const OPERATORS, by length
Operators4 == {">>>="}
Operators3 == {"===", "!==", ">>>", "...", "**=", "<<=", ">>="}
Operators2 ==
  { "==", "!=", "<=", ">=", "&&", "||", "<<", ">>", "+=", "-=", "*=", "/=", "%=",
    "++", "--", "->", "=>", "??", "?.", "**", "&=", "|=", "^=" }
Operators1 ==
  { "+", "-", "*", "/", "%", "=", "<", ">", "!", "&", "|", "^", "~", "?", ":" }

\* sortedOps: the operators the characters from an offset on can spell are
\* at most one of each length; the longest comes first.
OPERATORS == <<Operators4, Operators3, Operators2, Operators1>>

\* const PUNCTUATION
PUNCTUATION == {"{", "}", "[", "]", "(", ")", ";", ",", ".", "?", ":"}

ErrUnexpectedChar  == "Unexpected character"
ErrUnexpectedToken == "Unexpected token"
ErrUnexpectedEOF   == "Unexpected EOF"

Token(type, value) == [type |-> type, value |-> value]
EOF == [type |-> "EOF", value |-> Undefined]

\* The longest run of characters of class from offset p on: its end.
RECURSIVE RunEnd(_, _, _)
RunEnd(src, p, class) ==
  IF p < Len(src) /\ src[p + 1] \in class THEN RunEnd(src, p + 1, class) ELSE p

\* source.slice(from, to) as a string
RECURSIVE Slice(_, _, _)
Slice(src, from, to) ==
  IF from >= to \/ from >= Len(src) THEN ""
  ELSE src[from + 1] \o Slice(src, from + 1, to)

DigitValue(ch) == (CHOOSE i \in DOMAIN Digits : Digits[i] = ch) - 1

\* parseInt(numStr, 10) of the digits src[from..to)
RECURSIVE ParseInt(_, _, _)
ParseInt(src, from, to) ==
  IF from >= to THEN 0
  ELSE ParseInt(src, from, to - 1) * 10 + DigitValue(src[to])

OpLen(op) ==
  IF op \in Operators4 THEN 4 ELSE IF op \in Operators3 THEN 3
  ELSE IF op \in Operators2 THEN 2 ELSE 1

\* for (const op of sortedOps) if (source.slice(pos, pos + op.length) === op):
\* the operators that match at offset p, the longest first
MatchingOps(src, p) ==
  LET Match(n) == IF Slice(src, p, p + n) \in OPERATORS[5 - n]
                  THEN <<Slice(src, p, p + n)>> ELSE <<>>
  IN  Match(4) \o Match(3) \o Match(2) \o Match(1)

\* One iteration of the while (pos < len) loop of tokenize at offset p, for
\* a character that starts no template literal: the offset after it and
\* the token pushed.  (Comments, strings and the other number forms start
\* with characters the sources do not hold.)
ScanToken(src, p) ==
  LET ch     == src[p + 1]
      Got(q, toks) == [pos |-> q, tokens |-> toks, error |-> NoError]
  IN  IF ch \in Whitespace THEN Got(p + 1, <<>>)
      ELSE IF ch \in Range(Digits)
      THEN LET q == RunEnd(src, p, Range(Digits))
           IN  Got(q, <<Token("NUMBER", Num(ParseInt(src, p, q)))>>)
      ELSE IF ch \in IdentStart
      THEN LET q     == RunEnd(src, p, IdentPart)
               ident == Slice(src, p, q)
           IN  Got(q, <<Token(IF ident \in KEYWORDS THEN "KEYWORD" ELSE "IDENTIFIER",
                              ident)>>)
      ELSE IF MatchingOps(src, p) # <<>>
      THEN Got(p + OpLen(MatchingOps(src, p)[1]),
               <<Token("OPERATOR", MatchingOps(src, p)[1])>>)
      ELSE IF ch \in PUNCTUATION THEN Got(p + 1, <<Token("PUNCTUATION", ch)>>)
      ELSE [pos |-> p, tokens |-> <<>>, error |-> ErrUnexpectedChar]

\* tokenize(exprSource) for the text of an interpolation, from offset p on
\* with the tokens toks pushed so far (an interpolation of the sources
\* holds no template literal).
RECURSIVE tokenize(_, _, _)
tokenize(src, p, toks) ==
  IF p >= Len(src) THEN [tokens |-> Append(toks, EOF), error |-> NoError]
  ELSE LET s == ScanToken(src, p)
       IN  IF s.error # NoError THEN [tokens |-> toks, error |-> s.error]
           ELSE tokenize(src, s.pos, toks \o s.tokens)

\* The character that opens and closes a template literal.
Backtick == "BACKTICK"

ErrUnterminatedTemplate      == "Unterminated template literal"
ErrUnterminatedInterpolation == "Unterminated template interpolation"

\* while (pos < len) { if '{' depth++ else if '}' { if (depth === 0) break;
\* depth-- } exprTokens.push(source[pos]); pos++ }: the offset it ends at
RECURSIVE InterpolationEnd(_, _, _)
InterpolationEnd(src, p, depth) ==
  IF p >= Len(src) THEN p
  ELSE IF src[p + 1] = "{" THEN InterpolationEnd(src, p + 1, depth + 1)
  ELSE IF src[p + 1] = "}"
  THEN IF depth = 0 THEN p ELSE InterpolationEnd(src, p + 1, depth - 1)
  ELSE InterpolationEnd(src, p + 1, depth)

\* value += ... for the character after a backslash
Escaped(src, p) ==
  IF p >= Len(src) THEN "undefined"
  ELSE IF src[p + 1] = "n" THEN "\n"
  ELSE IF src[p + 1] = "t" THEN "\t"
  ELSE IF src[p + 1] = "r" THEN "\r"
  ELSE src[p + 1]

\* The template literal branch of tokenize, from the offset p after the
\* opening character on: the loop while (pos < len && source[pos] is not
\* the closing character) and the push that follows it.
RECURSIVE ScanTemplate(_, _, _, _, _)
ScanTemplate(src, p, value, isHead, toks) ==
  IF p >= Len(src)
  THEN [pos |-> p, tokens |-> toks, error |-> ErrUnterminatedTemplate]
  ELSE IF src[p + 1] = Backtick
  THEN [pos |-> p + 1, error |-> NoError,
        tokens |-> Append(toks, Token(IF isHead THEN "TEMPLATE" ELSE "TEMPLATE_TAIL",
                                      value))]
  ELSE IF src[p + 1] = "\\"
  THEN ScanTemplate(src, p + 2, value \o Escaped(src, p + 1), isHead, toks)
  ELSE IF src[p + 1] = "$" /\ p + 1 < Len(src) /\ src[p + 2] = "{"
  THEN LET part   == Token(IF isHead THEN "TEMPLATE_HEAD" ELSE "TEMPLATE_MID", value)
           end    == InterpolationEnd(src, p + 2, 0)
           sub    == tokenize(SubSeq(src, p + 3, end), 0, <<>>)
           expr   == [type |-> "TEMPLATE_EXPR", value |-> Undefined,
                      tokens |-> SubSeq(sub.tokens, 1, Len(sub.tokens) - 1)]
       IN  IF end >= Len(src)
           THEN [pos |-> end, tokens |-> Append(toks, part),
                 error |-> ErrUnterminatedInterpolation]
           ELSE IF sub.error # NoError
           THEN [pos |-> end + 1, tokens |-> Append(toks, part), error |-> sub.error]
           ELSE ScanTemplate(src, end + 1, "", FALSE, toks \o <<part, expr>>)
  ELSE ScanTemplate(src, p + 1, value \o src[p + 1], isHead, toks)

\* The iteration ends at s.pos with s.tokens pushed, or throws s.error.
Scanned(s) ==
  IF s.error # NoError
  THEN /\ error' = s.error
       /\ pc' = "failed"
       /\ UNCHANGED <<lexPos, tokens>>
  ELSE /\ lexPos' = s.pos
       /\ tokens' = tokens \o s.tokens
       /\ UNCHANGED <<pc, error>>

\* One iteration of the while (pos < len) loop of tokenize, or the push of
\* EOF that follows the loop.
Tokenize ==
  /\ pc = "tokenize"
  /\ IF lexPos >= Len(source)
     THEN /\ tokens' = Append(tokens, EOF)
          /\ pc' = "parse"
          /\ UNCHANGED <<lexPos, error>>
     ELSE Scanned(IF source[lexPos + 1] = Backtick
                  THEN ScanTemplate(source, lexPos + 1, "", TRUE, <<>>)
                  ELSE ScanToken(source, lexPos))
  /\ UNCHANGED <<outVars, rev, bytecode, constants, netVars, source, ast, errors, ifMarks, loopMarks, marks, loopStack, constLog>>

\* The parser state of parse(tokens): current, the Error thrown ("" for
\* none), and the node the last parse function returned.
peek(toks, ps) == toks[ps.current + 1]
isKeyword(toks, ps, kw) == peek(toks, ps).type = "KEYWORD" /\ peek(toks, ps).value = kw
isPunct(toks, ps, p) == peek(toks, ps).type = "PUNCTUATION" /\ peek(toks, ps).value = p
isOperator(toks, ps, ops) == peek(toks, ps).type = "OPERATOR" /\ peek(toks, ps).value \in ops

\* consume(type, value); value Undefined when the call passes none
consume(toks, ps, type, value) ==
  IF ps.error # NoError THEN ps
  ELSE IF ps.current >= Len(toks) THEN [ps EXCEPT !.error = ErrUnexpectedEOF]
  ELSE IF peek(toks, ps).type # type
  THEN [ps EXCEPT !.error = "Expected " \o type \o ", got " \o peek(toks, ps).type]
  ELSE IF value # Undefined /\ peek(toks, ps).value # value
  THEN [ps EXCEPT !.error = "Expected '" \o value \o "'"]
  ELSE [ps EXCEPT !.current = @ + 1]

Returning(ps, node) == IF ps.error # NoError THEN ps ELSE [ps EXCEPT !.node = node]

\* return { ...node, [field]: the node the last parse function returned }
ReturningWith(ps, node, field) ==
  IF ps.error # NoError THEN ps
  ELSE [ps EXCEPT !.node = [node EXCEPT ![field] = ps.node]]

\* parsePrimary, after an identifier: while (isPunct('.') || ...), for the
\* accesses expr.prop; ps.node is expr.
RECURSIVE parseMembers(_, _)
parseMembers(toks, ps) ==
  IF ps.error # NoError \/ ~isPunct(toks, ps, ".") THEN ps
  ELSE LET p1 == consume(toks, ps, "PUNCTUATION", ".")
           p2 == consume(toks, p1, "IDENTIFIER", Undefined)
       IN  parseMembers(toks, Returning(p2, MemberExpression(ps.node, peek(toks, p1).value)))

\* new Parser(exprTokens): no binding of the name Parser exists
ErrParserNotDefined == "Parser is not defined"

\* parsePrimary: a NUMBER, a template literal, or an IDENTIFIER with the
\* accesses after it (neither '[' nor '(' follows in the sources)
parsePrimary(toks, ps) ==
  IF ps.error # NoError THEN ps
  ELSE IF peek(toks, ps).type = "NUMBER"
  THEN Returning(consume(toks, ps, "NUMBER", Undefined), Literal(peek(toks, ps).value))
  ELSE IF peek(toks, ps).type = "TEMPLATE"
  THEN Returning(consume(toks, ps, "TEMPLATE", Undefined),
                 TemplateLiteral(<<peek(toks, ps).value>>, <<>>))
  ELSE IF peek(toks, ps).type = "TEMPLATE_HEAD"
  THEN LET p1 == consume(toks, ps, "TEMPLATE_HEAD", Undefined)
       IN  IF peek(toks, p1).type = "TEMPLATE_EXPR"
           THEN [consume(toks, p1, "TEMPLATE_EXPR", Undefined)
                   EXCEPT !.error = ErrParserNotDefined]
           ELSE Returning(p1, TemplateLiteral(<<peek(toks, ps).value>>, <<>>))
  ELSE IF peek(toks, ps).type = "IDENTIFIER"
  THEN parseMembers(toks, Returning(consume(toks, ps, "IDENTIFIER", Undefined),
                                    Identifier(peek(toks, ps).value)))
  ELSE [ps EXCEPT !.error = ErrUnexpectedToken]

\* parseAdditive: let left = parseMultiplicative(); while ('+' | '-') ...
\* (the levels from parseMultiplicative down to parsePostfix return what
\* parsePrimary returns where none of their operators is the next token)
RECURSIVE parseAdditiveLoop(_, _)
parseAdditiveLoop(toks, ps) ==
  IF ps.error # NoError \/ ~isOperator(toks, ps, {"+", "-"}) THEN ps
  ELSE parseAdditiveLoop(toks,
         ReturningWith(parsePrimary(toks, consume(toks, ps, "OPERATOR", Undefined)),
                       BinaryExpression(peek(toks, ps).value, ps.node, Null), "right"))

parseAdditive(toks, ps) == parseAdditiveLoop(toks, parsePrimary(toks, ps))

\* parseAssignment (parseTernary and the levels down to parseShift return
\* what parseAdditive returns where none of their operators is the next token)
RECURSIVE parseAssignment(_, _)
\* parseAssignment after const left = parseTernary()
parseAssignmentOf(toks, left) ==
  IF left.error = NoError /\ isOperator(toks, left, {"=", "+="})
  THEN ReturningWith(parseAssignment(toks, consume(toks, left, "OPERATOR", Undefined)),
                     AssignmentExpression(peek(toks, left).value, left.node, Null),
                     "right")
  ELSE left

parseAssignment(toks, ps) == parseAssignmentOf(toks, parseAdditive(toks, ps))

parseExpression(toks, ps) == parseAssignment(toks, ps)

\* parseVariableDeclaration(kind): one declarator (no ',' in the sources)
parseVariableDeclaration(toks, ps, kind) ==
  LET p1   == consume(toks, ps, "KEYWORD", kind)
      p2   == consume(toks, p1, "IDENTIFIER", Undefined)
      name == peek(toks, p1).value
      p3   == IF p2.error = NoError /\ isPunct(toks, p2, "=")
              THEN parseExpression(toks, consume(toks, p2, "OPERATOR", "="))
              ELSE Returning(p2, Null)
      p4   == consume(toks, p3, "PUNCTUATION", ";")
  IN  Returning(p4, [type |-> "VariableDeclaration", kind |-> kind,
                     declarations |-> <<[id |-> Identifier(name), init |-> p3.node]>>])

\* parseExpressionStatement after const expr = parseExpression()
parseStatementEnd(toks, p1) ==
  Returning(consume(toks, p1, "PUNCTUATION", ";"), ExpressionStatement(p1.node))

parseExpressionStatement(toks, ps) == parseStatementEnd(toks, parseExpression(toks, ps))

\* parseBreakStatement / parseContinueStatement
parseJumpStatement(toks, ps, kw) ==
  LET p1 == consume(toks, ps, "KEYWORD", kw)
      p2 == consume(toks, p1, "PUNCTUATION", ";")
  IN  Returning(p2, IF kw = "break" THEN BreakStatement ELSE ContinueStatement)

\* parseStatement, parseBlockStatement and its while (!isPunct('}')) loop,
\* parseFunctionDeclaration (no parameters between the parentheses) and
\* parseWhileStatement call one another; fn names the one that runs.
\* The statements a block has parsed so far are in ps.body.
RECURSIVE parseIn(_, _, _)
parseIn(toks, ps, fn) ==
  IF ps.error # NoError THEN ps
  ELSE IF fn = "parseBlockStatement"
  THEN LET p1 == consume(toks, ps, "PUNCTUATION", "{")
           p2 == parseIn(toks, [p1 EXCEPT !.body = <<>>], "body.push")
           p3 == consume(toks, p2, "PUNCTUATION", "}")
       IN  Returning(p3, BlockStatement(p2.body))
  ELSE IF fn = "body.push"
  THEN IF isPunct(toks, ps, "}") THEN ps
       ELSE LET p1 == parseIn(toks, ps, "parseStatement")
                p2 == [p1 EXCEPT !.body = Append(ps.body, p1.node)]
            IN  parseIn(toks, p2, "body.push")
  ELSE IF isKeyword(toks, ps, "function")
  THEN LET p1   == consume(toks, ps, "KEYWORD", "function")
           p2   == consume(toks, p1, "IDENTIFIER", Undefined)
           name == peek(toks, p1).value
           p3   == consume(toks, p2, "PUNCTUATION", "(")
           p4   == consume(toks, p3, "PUNCTUATION", ")")
           p5   == parseIn(toks, p4, "parseBlockStatement")
       IN  Returning(p5, FunctionDeclaration(name, <<>>, p5.node))
  ELSE IF isKeyword(toks, ps, "while")
  THEN LET p1 == consume(toks, ps, "KEYWORD", "while")
           p2 == consume(toks, p1, "PUNCTUATION", "(")
           p3 == parseExpression(toks, p2)
           p4 == consume(toks, p3, "PUNCTUATION", ")")
           p5 == parseIn(toks, p4, "parseStatement")
       IN  Returning(p5, WhileStatement(p3.node, p5.node))
  ELSE IF isKeyword(toks, ps, "break") \/ isKeyword(toks, ps, "continue")
  THEN parseJumpStatement(toks, ps, peek(toks, ps).value)
  ELSE IF isKeyword(toks, ps, "let")
  THEN parseVariableDeclaration(toks, ps, peek(toks, ps).value)
  ELSE IF isPunct(toks, ps, "{") THEN parseIn(toks, ps, "parseBlockStatement")
  ELSE parseExpressionStatement(toks, ps)

\* parseStatement: the branches for the keywords and tokens of the sources
parseStatement(toks, ps) == parseIn(toks, ps, "parseStatement")

\* parseProgram: while (peek().type !== 'EOF') body.push(parseStatement())
RECURSIVE parseProgram(_, _, _)
parseProgram(toks, ps, body) ==
  IF ps.error # NoError THEN ps
  ELSE IF peek(toks, ps).type = "EOF" THEN Returning(ps, Program(body))
  ELSE LET p1 == parseStatement(toks, ps)
       IN  parseProgram(toks, p1, Append(body, p1.node))

\* parse(tokens) returns r.node or throws r.error
ParseReturns(r) ==
  /\ error' = r.error
  /\ ast' = IF r.error = NoError THEN r.node ELSE ast
  /\ pc' = IF r.error = NoError THEN "semantics" ELSE "failed"

\* const ast = parse(tokens)
Parse ==
  /\ pc = "parse"
  /\ ParseReturns(parseProgram(tokens, [current |-> 0, error |-> NoError, node |-> Null,
                                        body |-> <<>>], <<>>))
  /\ UNCHANGED <<outVars, rev, bytecode, constants, netVars, source, lexPos, tokens,
                 errors, ifMarks, loopMarks, marks, loopStack, constLog>>

\* isGlobal(name): globals.includes(name)
isGlobal(name) ==
  name \in {"console", "Math", "JSON", "Object", "Array", "String", "Number", "Boolean",
            "Date", "RegExp", "Error", "Promise", "Map", "Set", "WeakMap", "WeakSet",
            "Symbol", "Reflect", "Proxy", "globalThis", "window", "document", "fetch",
            "setTimeout", "setInterval", "clearTimeout", "clearInterval", "WebSocket",
            "EventTarget", "Event"}

\* lookup(name)
lookup(scopes, name) == \E i \in DOMAIN scopes : name \in scopes[i]

\* enterScope(): scopes.unshift(new Map()); exitScope(): scopes.shift()
enterScope(v) == [v EXCEPT !.scopes = <<{}>> \o @]
exitScope(v)  == [v EXCEPT !.scopes = Tail(@)]

declareInAnyScope(v, name) ==
  [scopes |-> [v.scopes EXCEPT ![1] = @ \cup {name}],
   errors |-> IF lookup(v.scopes, name)
              THEN Append(v.errors, "Duplicate declaration: " \o name)
              ELSE v.errors]

\* declare(name, ...)
declare(v, name) ==
  [scopes |-> [v.scopes EXCEPT ![1] = @ \cup {name}],
   errors |-> IF name \in v.scopes[1]
              THEN Append(v.errors, "Duplicate declaration: " \o name)
              ELSE v.errors]

\* node.params.forEach(p => declare(p, 'parameter', node)), each p a string
RECURSIVE declareEach(_, _)
declareEach(v, names) ==
  IF names = <<>> THEN v ELSE declareEach(declare(v, Head(names)), Tail(names))

\* check(node): the scopes and the errors after the node; scopes[1] is the
\* innermost scope.
RECURSIVE check(_, _)
check(node, v) ==
  IF node = Null THEN v
  ELSE CASE node.type = "Program" ->           \* node.body.forEach(check)
         IF node.body = <<>> THEN v
         ELSE LET v1 == check(Head(node.body), v)
              IN  check([node EXCEPT !.body = Tail(@)], v1)
    [] node.type = "BlockStatement" ->
         LET v1 == check(Program(node.body), enterScope(v)) IN exitScope(v1)
    [] node.type = "FunctionDeclaration" ->    \* the parameters are names
         LET v1 == declareEach(enterScope(declare(v, node.name)), node.params)
             v2 == check(node.body, v1)
         IN  exitScope(v2)
    [] node.type = "VariableDeclaration" ->
         check(node.declarations[1].init, declare(v, node.declarations[1].id.name))
    [] node.type = "IfStatement" ->
         LET v1 == check(node.test, v)
             v2 == check(node.consequent, v1)
         IN  check(node.alternate, v2)
    [] node.type = "WhileStatement" ->
         LET v1 == check(node.test, v) IN check(node.body, v1)
    [] node.type = "ForStatement" ->
         LET v1 == check(node.init, enterScope(v))
             v2 == check(node.test, v1)
             v3 == check(node.update, v2)
             v4 == check(node.body, v3)
         IN  exitScope(v4)
    [] node.type = "ForInStatement" ->         \* node.left is an identifier
         LET v1 == declare(enterScope(v), node.left.name)
             v2 == check(node.right, v1)
             v3 == check(node.body, v2)
         IN  exitScope(v3)
    [] node.type = "TryStatement" ->           \* the catch parameter is an identifier
         LET v1 == check(node.block, v)
             v2 == IF node.catchClause = Null THEN v1
                   ELSE LET c1 == declare(enterScope(v1), node.catchClause.param.name)
                            c2 == check(node.catchClause.body, c1)
                        IN  exitScope(c2)
         IN  check(node.finalizer, v2)
    [] node.type = "SwitchStatement" ->
         LET v1 == check(node.discriminant, v)
         IN  check([type |-> "cases.forEach", cases |-> node.cases], v1)
    [] node.type = "cases.forEach" ->          \* node.cases.forEach(c => ...)
         IF node.cases = <<>> THEN v
         ELSE LET c  == Head(node.cases)
                  v1 == check(c.test, v)
                  v2 == check(Program(c.consequent), enterScope(v1))
              IN  check([node EXCEPT !.cases = Tail(@)], exitScope(v2))
    [] node.type = "MemberExpression" ->
         LET v1 == check(node.object, v) IN check(node.property, v1)
    [] node.type = "TemplateLiteral" ->        \* node.expressions.forEach(check)
         check(Program(node.expressions), v)
    [] node.type = "ExpressionStatement" -> check(node.expression, v)
    [] node.type \in {"AssignmentExpression", "BinaryExpression"} ->
         LET v1 == check(node.left, v) IN check(node.right, v1)
    [] node.type = "Identifier" ->
         IF ~lookup(v.scopes, node.name) /\ ~isGlobal(node.name)
         THEN [v EXCEPT !.errors = Append(@, "Undefined variable: " \o node.name)]
         ELSE v
    [] OTHER -> v

JoinLinesFirstOnly(lines) == lines[1]

\* errors.join('\n')
RECURSIVE JoinLines(_)
JoinLines(lines) ==
  IF Len(lines) = 1 THEN lines[1] ELSE lines[1] \o "\n" \o JoinLines(Tail(lines))

\* if (errors.length > 0) throw new Error('Semantic errors:\n' + errors.join('\n'))
Checked(v) ==
  /\ errors' = v.errors
  /\ IF v.errors # <<>>
     THEN /\ error' = "Semantic errors:\n" \o JoinLines(v.errors)
          /\ pc' = "failed"
     ELSE /\ error' = NoError
          /\ pc' = "generate"

\* validateSemantics(ast)
ValidateSemantics ==
  /\ pc = "semantics"
  /\ Checked(check(ast, [scopes |-> <<{}>>, errors |-> <<>>]))
  /\ UNCHANGED <<outVars, rev, bytecode, constants, netVars, source, lexPos, tokens, ast,
                 ifMarks, loopMarks, marks, loopStack, constLog>>

\* The statements of the source texts.
StatementTexts ==
  {
    \* let x = 1 + 2;
    <<"l", "e", "t", " ", "x", " ", "=", " ", "1", " ", "+", " ", "2", ";">>,
    \* let x;
    <<"l", "e", "t", " ", "x", ";">>,
    \* x = 1 + 2;
    <<"x", " ", "=", " ", "1", " ", "+", " ", "2", ";">>,
    \* 1 + 2;
    <<"1", " ", "+", " ", "2", ";">>,
    \* x;
    <<"x", ";">>,
    \* let x = 1;
    <<"l", "e", "t", " ", "x", " ", "=", " ", "1", ";">>,
    \* x = x + 12;
    <<"x", " ", "=", " ", "x", " ", "+", " ", "1", "2", ";">>,
    \* let x
    <<"l", "e", "t", " ", "x">>
  }

\* Source texts with blocks, loops and function declarations.
ControlTexts ==
  {
    \* break;
    <<"b", "r", "e", "a", "k", ";">>,
    \* continue;
    <<"c", "o", "n", "t", "i", "n", "u", "e", ";">>,
    \* while (console) { break; }
    <<"w", "h", "i", "l", "e", " ", "(", "c", "o", "n", "s", "o", "l", "e", ")", " ",
      "{", " ", "b", "r", "e", "a", "k", ";", " ", "}">>,
    \* while (console) continue;
    <<"w", "h", "i", "l", "e", " ", "(", "c", "o", "n", "s", "o", "l", "e", ")", " ",
      "c", "o", "n", "t", "i", "n", "u", "e", ";">>,
    \* while (console) { function f() { break; } }
    <<"w", "h", "i", "l", "e", " ", "(", "c", "o", "n", "s", "o", "l", "e", ")", " ",
      "{", " ", "f", "u", "n", "c", "t", "i", "o", "n", " ", "f", "(", ")", " ", "{",
      " ", "b", "r", "e", "a", "k", ";", " ", "}", " ", "}">>,
    \* function f() { continue; }
    <<"f", "u", "n", "c", "t", "i", "o", "n", " ", "f", "(", ")", " ", "{", " ", "c",
      "o", "n", "t", "i", "n", "u", "e", ";", " ", "}">>,
    \* function f() { while (console) { break; } }
    <<"f", "u", "n", "c", "t", "i", "o", "n", " ", "f", "(", ")", " ", "{", " ", "w",
      "h", "i", "l", "e", " ", "(", "c", "o", "n", "s", "o", "l", "e", ")", " ", "{",
      " ", "b", "r", "e", "a", "k", ";", " ", "}", " ", "}">>,
    \* { let x; }
    <<"{", " ", "l", "e", "t", " ", "x", ";", " ", "}">>,
    \* let x; { let x; }
    <<"l", "e", "t", " ", "x", ";", " ", "{", " ", "l", "e", "t", " ", "x", ";", " ",
      "}">>,
    \* { let x; let x; }
    <<"{", " ", "l", "e", "t", " ", "x", ";", " ", "l", "e", "t", " ", "x", ";", " ",
      "}">>,
    \* { let x; } let x;
    <<"{", " ", "l", "e", "t", " ", "x", ";", " ", "}", " ", "l", "e", "t", " ", "x",
      ";">>,
    \* function f() { let f; }
    <<"f", "u", "n", "c", "t", "i", "o", "n", " ", "f", "(", ")", " ", "{", " ", "l",
      "e", "t", " ", "f", ";", " ", "}">>,
    \* function f() { } let f;
    <<"f", "u", "n", "c", "t", "i", "o", "n", " ", "f", "(", ")", " ", "{", " ", "}",
      " ", "l", "e", "t", " ", "f", ";">>,
    \* y; { let x; let x; z; }
    <<"y", ";", " ", "{", " ", "l", "e", "t", " ", "x", ";", " ", "l", "e", "t", " ",
      "x", ";", " ", "z", ";", " ", "}">>,
    \* console.log;
    <<"c", "o", "n", "s", "o", "l", "e", ".", "l", "o", "g", ";">>,
    \* let y; y = z + w;
    <<"l", "e", "t", " ", "y", ";", " ", "y", " ", "=", " ", "z", " ", "+", " ", "w",
      ";">>
  }

\* The source texts: up to MaxStatements statements, a space between two.
RECURSIVE SourcesOf(_)
SourcesOf(n) ==
  IF n = 1 THEN StatementTexts
  ELSE SourcesOf(n - 1)
       \cup { s \o <<" ">> \o t : s \in SourcesOf(n - 1), t \in StatementTexts }

\* Source texts with template literals.
TemplateTexts ==
  {
    \* a${x}b${y}c between two template characters, then ;
    <<Backtick, "a", "$", "{", "x", "}", "b", "$", "{", "y", "}", "c", Backtick, ";">>,
    \* let x; let y; then the same template literal
    <<"l", "e", "t", " ", "x", ";", " ", "l", "e", "t", " ", "y", ";", " ", Backtick,
      "a", "$", "{", "x", "}", "b", "$", "{", "y", "}", "c", Backtick, ";">>,
    \* ${console} between two template characters, then ;
    <<Backtick, "$", "{", "c", "o", "n", "s", "o", "l", "e", "}", Backtick, ";">>,
    \* ab between two template characters, then ;
    <<Backtick, "a", "b", Backtick, ";">>,
    \* an opening template character and ab
    <<Backtick, "a", "b">>,
    \* an opening template character and a${x
    <<Backtick, "a", "$", "{", "x">>,
    \* an opening template character and ${#}
    <<Backtick, "$", "{", "#", "}", Backtick>>
  }

Sources == SourcesOf(MaxStatements) \cup ControlTexts \cup TemplateTexts

InitCompile ==
  /\ rev = "PBO3"
  /\ pc = "tokenize"
  /\ error = NoError
  /\ bytecode = <<>>
  /\ constants = <<>>
  /\ program = NoGraph
  /\ blockIds = {}
  /\ successors = NoMap
  /\ predecessors = NoMap
  /\ startId = Undefined
  /\ blockConstIdx = NoMap
  /\ blockStartPos = NoMap
  /\ jumpPatches = <<>>
  /\ placed = {}
  /\ pending = <<>>
  /\ source \in Sources
  /\ lexPos = 0
  /\ tokens = <<>>
  /\ ast = Null
  /\ ifMarks = <<>>
  /\ loopMarks = <<>>
  /\ marks = <<>>
  /\ loopStack = <<>>
  /\ errors = <<>>
  /\ constLog = <<>>
  /\ binary = <<>>
  /\ calls = <<>>
  /\ NoWorker

NextCompile ==
  \/ Tokenize
  \/ Parse
  \/ ValidateSemantics
  \/ GenerateBytecode
  \/ AssembleBinary

SpecCompile == InitCompile /\ [][NextCompile]_vars

(***************************************************************************)
(* validateSemantics on the trees the parser builds for declarations and   *)
(* references inside blocks, functions, loops, try and switch statements.  *)
(***************************************************************************)
ScopeLeaves ==
  { VariableDeclaration("a", Null),
    ExpressionStatement(Identifier("a")),
    ExpressionStatement(Identifier("b")),
    ExpressionStatement(Identifier("console")),
    ExpressionStatement(MemberExpression(Identifier("console"), "log")) }

\* The statement lists of at most n leaves.
RECURSIVE LeafLists(_)
LeafLists(n) ==
  IF n = 0 THEN {<<>>}
  ELSE LeafLists(n - 1)
       \cup { Append(l, s) : l \in { k \in LeafLists(n - 1) : Len(k) = n - 1 },
                             s \in ScopeLeaves }

\* The statements that open scopes around the statement list.
Scoped(list) ==
  LET block == BlockStatement(list) IN
  { block,
    FunctionDeclaration("f", <<>>, block),
    FunctionDeclaration("a", <<"a">>, block),
    FunctionDeclaration("f", <<"a", "a">>, block),
    WhileStatement(TestExpr, block),
    IfStatement(TestExpr, block, Null),
    [ForStatement(Null, Null, block) EXCEPT !.init = VariableDeclaration("a", Null)],
    ForInStatement(Identifier("a"), TestExpr, block),
    TryStatement(block, CatchClause("a", block), Null),
    TryStatement(BlockStatement(<<>>), Null, block),
    SwitchStatement(TestExpr, <<SwitchCase(Null, list)>>),
    SwitchStatement(TestExpr, <<SwitchCase(Identifier("b"), list),
                                SwitchCase(Null, list)>>) }

Trees ==
  { Program(list) : list \in LeafLists(MaxStatements + 1) }
  \cup { Program(pre \o <<s>> \o post) :
            pre \in {<<>>, <<VariableDeclaration("a", Null)>>},
            post \in {<<>>, <<VariableDeclaration("a", Null)>>},
            s \in UNION { Scoped(list) : list \in LeafLists(MaxStatements) } }

InitSemantics ==
  /\ rev = "PBO3"
  /\ pc = "semantics"
  /\ error = NoError
  /\ bytecode = <<>>
  /\ constants = <<>>
  /\ program = NoGraph
  /\ blockIds = {}
  /\ successors = NoMap
  /\ predecessors = NoMap
  /\ startId = Undefined
  /\ blockConstIdx = NoMap
  /\ blockStartPos = NoMap
  /\ jumpPatches = <<>>
  /\ placed = {}
  /\ pending = <<>>
  /\ source = <<>>
  /\ lexPos = 0
  /\ tokens = <<>>
  /\ ast \in Trees
  /\ ifMarks = <<>>
  /\ loopMarks = <<>>
  /\ marks = <<>>
  /\ loopStack = <<>>
  /\ errors = <<>>
  /\ constLog = <<>>
  /\ binary = <<>>
  /\ calls = <<>>
  /\ NoWorker

NextSemantics == ValidateSemantics

SpecSemantics == InitSemantics /\ [][NextSemantics]_vars

(***************************************************************************)
(* Reading the emitted graph code back.                                    *)
(***************************************************************************)
\* The length of the NBO1 instruction whose opcode byte is op.
NetInstrLen(op) ==
  IF op = NBO1_OP.EXEC_BLOCK THEN 5
  ELSE IF op \in {NBO1_OP.JMP, NBO1_OP.JZ} THEN 3 ELSE 1

\* The offsets at which the instructions of code start, from offset p on.
RECURSIVE NetStarts(_, _)
NetStarts(code, p) ==
  IF p >= Len(code) THEN {}
  ELSE {p} \cup NetStarts(code, p + NetInstrLen(code[p + 1]))

\* The offsets of the EXEC_BLOCK instructions that name block id.
ExecBlocksOf(id) ==
  { p \in NetStarts(bytecode, 0) :
      /\ bytecode[p + 1] = NBO1_OP.EXEC_BLOCK
      /\ p + 5 <= Len(bytecode)
      /\ ReadU32(bytecode, p + 1) = blockConstIdx[id] }

\* The offset a jump whose opcode is at offset p transfers to.
JumpTarget(code, p) == p + 3 + ReadS16(code, p + 1)

\* The declared blocks no connection of the input leads to.
NoIncoming ==
  { b.id : b \in { x \in Range(program.blocks) :
                     \A i \in DOMAIN program.connections :
                        program.connections[i].to # x.id } }

PastValidation ==
  /\ pc \notin {"validate", "entry"}
  /\ error \notin {ErrUnknownFrom, ErrUnknownTo, ErrDuplicate}

SeedGraph ==
  [blocks |-> <<[id |-> "A", type |-> "start"], [id |-> "B", type |-> "end"]>>,
   connections |-> <<[from |-> "A", to |-> "B"]>>]

(***************************************************************************)
(* Claims about generateNetworkBytecode.                                   *)
(***************************************************************************)

\* C5: on the graph A(start) -> B(end) the current compiler (NBO2) succeeds
\* and the code is EXEC_BLOCK idx(A); EXEC_BLOCK idx(B); HALT with EXEC_BLOCK
\* the byte 0x14 followed by the u32 big-endian constant index.
C5_SeedGraphCode ==
  (rev = "NBO2" /\ program = SeedGraph /\ pc \notin {"validate", "entry", "layout"})
    => /\ pc = "done"
       /\ bytecode = <<20, 0, 0, 0, 0, 20, 0, 0, 0, 1, 255>>

\* C6: when generateNetworkBytecode returns, every declared block has
\* exactly one EXEC_BLOCK instruction in the code.
C6_EachBlockOnce ==
  pc = "done" => \A id \in blockIds : Cardinality(ExecBlocksOf(id)) = 1

\* C7: when generateNetworkBytecode returns, the jump of every recorded
\* patch, at offset p, carries the displacement blockStart(target) - (p + 3),
\* so it lands on the first byte of the EXEC_BLOCK of the block the patch
\* names, and that block has been placed.
C7_PatchesResolved ==
  pc = "done" =>
    \A i \in DOMAIN jumpPatches :
      LET p == jumpPatches[i].pos
          t == jumpPatches[i].targetId
      IN  /\ bytecode[p + 1] \in {NetOp(rev, "JMP"), NetOp(rev, "JZ")}
          /\ t \in placed
          /\ t \in DOMAIN blockStartPos
          /\ ReadS16(bytecode, p + 1) = blockStartPos[t] - (p + 3)
          /\ JumpTarget(bytecode, p) \in ExecBlocksOf(t)

\* C7 witness: a returned graph whose code holds a backward and resolved jump.
C7_Witness ==
  /\ pc = "done"
  /\ \E i \in DOMAIN jumpPatches : ReadS16(bytecode, jumpPatches[i].pos + 1) < 0

\* An if block with two outgoing connections whose config names exactly them.
WellFormedIf(id) ==
  /\ BlockOf(id).type = "if"
  /\ HasConfig(BlockOf(id))
  /\ DOMAIN BlockOf(id).config = {"trueTarget", "falseTarget"}
  /\ Len(successors[id]) = 2
  /\ {BlockOf(id).config.trueTarget, BlockOf(id).config.falseTarget} = Range(successors[id])

\* C8: in the returned code the EXEC_BLOCK of every placed if block is
\* immediately followed by a JZ to the EXEC_BLOCK of its falseTarget, and the
\* EXEC_BLOCK of its trueTarget starts right after that JZ (also when the
\* true target had been placed before).
C8_IfFallsThroughToTrue ==
  pc = "done" =>
    \A id \in placed :
      WellFormedIf(id) =>
        LET s == blockStartPos[id]
            c == BlockOf(id).config
        IN  /\ Len(bytecode) >= s + 8
            /\ bytecode[s + 6] = NetOp(rev, "JZ")
            /\ c.falseTarget \in DOMAIN blockStartPos
            /\ JumpTarget(bytecode, s + 5) = blockStartPos[c.falseTarget]
            /\ c.trueTarget \in DOMAIN blockStartPos
            /\ blockStartPos[c.trueTarget] = s + 8

\* The CFG invariant of an if block: exactly two outgoing connections, and a
\* config whose trueTarget and falseTarget are declared block ids.
IfBlockValid(block) ==
  /\ Len(successors[block.id]) = 2
  /\ HasConfig(block)
  /\ Get(block.config, "trueTarget") \in blockIds
  /\ Get(block.config, "falseTarget") \in blockIds

\* C9: generateNetworkBytecode returns only for graphs all of whose if blocks
\* satisfy the CFG invariant.
C9_InvalidIfRejected ==
  pc = "done" =>
    \A i \in DOMAIN program.blocks :
      program.blocks[i].type = "if" => IfBlockValid(program.blocks[i])

\* C10: past the validation of blocks and connections, a graph with no
\* predecessorless block fails with 'no start block', one with two or more
\* fails with 'multiple start blocks', both with no bytecode produced; only a
\* graph with exactly one is laid out.
C10_SingleEntry ==
  PastValidation =>
    IF Cardinality(NoIncoming) = 0
    THEN pc = "failed" /\ error = ErrNoStart /\ bytecode = <<>>
    ELSE IF Cardinality(NoIncoming) >= 2
    THEN pc = "failed" /\ error = ErrMultipleStart /\ bytecode = <<>>
    ELSE /\ error \notin {ErrNoStart, ErrMultipleStart}
         /\ startId \in NoIncoming

\* C10 witness: a graph with two predecessorless blocks has been rejected.
C10_Witness ==
  /\ pc = "failed"
  /\ error = ErrMultipleStart
  /\ Cardinality(NoIncoming) >= 2

(***************************************************************************)
(* Reading the emitted textual code back.                                  *)
(***************************************************************************)
TextRevs == {"PBO1", "PBO3"}

\* The length of the instruction whose opcode byte is op: emitU32 follows the
\* opcodes that name a constant or a count, emitU16 follows the jumps.
TextInstrLen(r, op) ==
  IF op \in {TextOp(r).JMP, TextOp(r).JZ} \/ (r = "PBO3" /\ op = OP.JNZ) THEN 3
  ELSE IF op \in {TextOp(r).PUSH_CONST, TextOp(r).LOAD_VAR, TextOp(r).STORE_VAR}
          \/ (r = "PBO3" /\ op \in {OP.GET_PROP, OP.CALL})
       THEN 5
  ELSE 1

IsJump(r, op) ==
  op \in {TextOp(r).JMP, TextOp(r).JZ} \/ (r = "PBO3" /\ op = OP.JNZ)

\* The offsets at which the instructions of code start, from offset p on.
RECURSIVE TextStarts(_, _, _)
TextStarts(r, code, p) ==
  IF p >= Len(code) THEN {}
  ELSE {p} \cup TextStarts(r, code, p + TextInstrLen(r, code[p + 1]))

Emitted == pc = "done" /\ rev \in TextRevs

(***************************************************************************)
(* Claims about generateBytecode.                                          *)
(***************************************************************************)

\* C1: in the code of every program generateBytecode emits successfully the
\* target of each JMP, JZ and JNZ (the offset after its operand plus its
\* signed displacement) is the first byte of an instruction of that code.
C1_JumpsLandOnInstructions ==
  (Emitted /\ rev = "PBO3") =>
    \A p \in TextStarts(rev, bytecode, 0) :
      IsJump(rev, bytecode[p + 1]) =>
        JumpTarget(bytecode, p) \in TextStarts(rev, bytecode, 0)

\* C2: the JZ of an if with an else targets the first byte of the code of the
\* alternate and the JMP after the consequent targets the first byte after
\* the alternate; the JZ of an if without else targets the first byte after
\* the consequent.
C2_IfJumpTargets ==
  (Emitted /\ rev = "PBO3") =>
    \A i \in DOMAIN ifMarks :
      LET m == ifMarks[i] IN
      IF m.jmpIdx >= 0
      THEN /\ JumpTarget(bytecode, m.jzIdx) = m.altStart
           /\ JumpTarget(bytecode, m.jmpIdx) = m.end
      ELSE JumpTarget(bytecode, m.jzIdx) = m.end

\* C3: the displacement written for the JMP that closes a while loop is
\* loop_start - (jmp_operand_start + 2): the jump goes back to the first byte
\* of the loop test.
C3_WhileBackJump ==
  Emitted =>
    \A i \in DOMAIN loopMarks :
      LET m == loopMarks[i] IN
      m.kind = "WhileStatement" =>
        /\ ReadS16(bytecode, m.operand) = m.loopStart - (m.operand + 2)
        /\ JumpTarget(bytecode, m.operand - 1) = m.loopStart

(***************************************************************************)
(* Claims about compileProgramBot.                                         *)
(***************************************************************************)
\* let x = 1 + 2;
DeclarationWithInitializer ==
  <<"l", "e", "t", " ", "x", " ", "=", " ", "1", " ", "+", " ", "2", ";">>

\* C4: compileProgramBot accepts `let x = 1 + 2;` and returns the constants
\* 1, 2, "x" at indices 0, 1, 2 with the code PUSH_CONST 0; PUSH_CONST 1; ADD;
\* STORE_VAR 2; HALT.
C4_DeclarationWithInitializer ==
  (source = DeclarationWithInitializer /\ pc \in {"done", "failed"}) =>
    /\ pc = "done"
    /\ constants = <<Num(1), Num(2), Str("x")>>
    /\ bytecode = <<OP.PUSH_CONST, 0, 0, 0, 0, OP.PUSH_CONST, 0, 0, 0, 1, OP.ADD,
                    OP.STORE_VAR, 0, 0, 0, 2, OP.HALT>>

(***************************************************************************)
(* Claims about the width of the jump operands.                            *)
(***************************************************************************)
S16 == -32768..32767

\* C11: in code that generateBytecode returns, every displacement the emitter
\* computed for the jumps of an if and for the JMP that closes a loop lies in
\* the signed 16-bit range: an emit whose displacement does not fit fails.
C11_DisplacementsFit ==
  (pc = "done" /\ rev = "PBO3") =>
    /\ \A i \in DOMAIN ifMarks :
         LET m == ifMarks[i] IN
         IF m.jmpIdx >= 0
         THEN /\ ElseOffset(rev, m.jzIdx, m.jmpIdx, m.jmpIdx + 3) \in S16
              /\ m.end - (m.jmpIdx + 3) \in S16
         ELSE m.end - (m.jzIdx + 3) \in S16
    /\ \A i \in DOMAIN loopMarks :
         BackOffset(loopMarks[i].loopStart, loopMarks[i].operand) \in S16

(***************************************************************************)
(* Claims about assembleBinary.                                            *)
(***************************************************************************)
\* The four ASCII codes of each magic.
MagicBytes ==
  [ PBO1 |-> <<80, 66, 79, 49>>, PBO3 |-> <<80, 66, 79, 51>>,
    NBO1 |-> <<78, 66, 79, 49>>, NBO2 |-> <<78, 66, 79, 50>> ]

\* The u32 little-endian read back from offset p of buf.
ReadU32LE(buf, p) ==
  buf[p + 1] + buf[p + 2] * 256 + buf[p + 3] * 65536 + buf[p + 4] * 16777216

\* data holds, from offset p on, exactly the records length || encoding of
\* the constants i, i + 1, ... of the pool.
RECURSIVE HoldsRecords(_, _, _)
HoldsRecords(data, p, i) ==
  IF i > Len(constants) THEN p = Len(data)
  ELSE /\ p + 4 <= Len(data)
       /\ LET n == ReadU32LE(data, p) IN
            /\ p + 4 + n <= Len(data)
            /\ SubSeq(data, p + 5, p + 4 + n) = Encoded(rev, constants[i])
            /\ HoldsRecords(data, p + 4 + n, i + 1)

\* C12: the Buffer assembleBinary returns is a 16-byte header, the data
\* section and the code section: the header holds the magic, 0, and the byte
\* lengths of the two sections (u32 little-endian); the data section is one
\* record length || encoding per constant, in pool order; the code section
\* is the bytecode.
C12_Container ==
  pc = "returned" =>
    /\ Len(binary) >= 16
    /\ SubSeq(binary, 1, 4) = MagicBytes[rev]
    /\ ReadU32LE(binary, 4) = 0
    /\ LET dataLen == ReadU32LE(binary, 8)
           codeLen == ReadU32LE(binary, 12)
       IN  /\ Len(binary) = 16 + dataLen + codeLen
           /\ HoldsRecords(SubSeq(binary, 17, 16 + dataLen), 0, 1)
           /\ SubSeq(binary, 17 + dataLen, Len(binary)) = bytecode

\* C12 witness: a binary has been assembled from code and a pool that holds
\* a string and a number.
C12_Witness ==
  /\ pc = "returned"
  /\ \E i, j \in DOMAIN constants :
       constants[i].k = "string" /\ constants[j].k = "number"
  /\ Len(binary) > 16 + Len(bytecode)

(***************************************************************************)
(* Claims about the shape of the emitted code.                             *)
(***************************************************************************)
\* The offsets of the instructions of the emitted code whose opcode is HALT.
HaltInstructions ==
  { p \in TextStarts(rev, bytecode, 0) : bytecode[p + 1] = TextOp(rev).HALT }

\* C13: the code generateBytecode emits for a program holds exactly one HALT
\* instruction, and it is the last instruction of the code.
C13_SingleHalt ==
  Emitted => HaltInstructions = {Len(bytecode) - 1}

\* C13 witness: code has been emitted for a loop, so that besides the HALT
\* opcode the byte 0xFF occurs as the high byte of a backward displacement.
C13_Witness ==
  /\ Emitted
  /\ loopMarks # <<>>
  /\ Cardinality({i \in DOMAIN bytecode : bytecode[i] = 255}) >= 2

(***************************************************************************)
(* Calls in sequence: a caller invokes compileProgramBot and               *)
(* compileNetworkBots one call after the other.  What a call creates with  *)
(* const and let inside the function is new in each call; the module-level *)
(* OP, KEYWORDS, OPERATORS and PUNCTUATION are never written.              *)
(***************************************************************************)
MaxCalls == 3    \* the caller makes at most this many calls

\* The graphs the caller passes to compileNetworkBots.
CallGraphs ==
  { SeedGraph,
    Graph(<<PlainBlock(1)>>, <<>>),
    Graph(<<PlainBlock(1), PlainBlock(2)>>, <<>>),
    Graph(<<[id |-> "A", type |-> "loop",
             config |-> [bodyStart |-> "B", exitTarget |-> "B"]], PlainBlock(2)>>,
          <<[from |-> "A", to |-> "B"]>>),
    Graph(<<[id |-> "A", type |-> "loop",
             config |-> [bodyStart |-> "C", exitTarget |-> "B"]], PlainBlock(2)>>,
          <<[from |-> "A", to |-> "B"]>>) }

\* The calls the caller can make: the entry point (by its magic) and the
\* argument.
CallInputs ==
  { [rev |-> "PBO3", source |-> t, program |-> NoGraph] : t \in StatementTexts }
  \cup { [rev |-> r, source |-> <<>>, program |-> g] :
           r \in {"NBO1", "NBO2"}, g \in CallGraphs }

StaleLocals ==
  [bytecode |-> <<>>, constants |-> <<>>, tokens |-> <<>>, lexPos |-> lexPos]

\* const bytecode = []; const constants = []; const tokens = []; let pos = 0
FreshLocals ==
  [bytecode |-> <<>>, constants |-> <<>>, tokens |-> <<>>, lexPos |-> 0]

\* The entry point of in.rev starts on its argument: what the call creates
\* is new, and nothing has been returned yet.
Invoke(in) ==
  /\ rev' = in.rev
  /\ source' = in.source
  /\ program' = in.program
  /\ pc' = IF in.rev = "PBO3" THEN "tokenize" ELSE "validate"
  /\ error' = NoError
  /\ bytecode' = FreshLocals.bytecode
  /\ constants' = FreshLocals.constants
  /\ tokens' = FreshLocals.tokens
  /\ lexPos' = FreshLocals.lexPos
  /\ blockIds' = {}
  /\ successors' = NoMap
  /\ predecessors' = NoMap
  /\ startId' = Undefined
  /\ blockConstIdx' = NoMap
  /\ blockStartPos' = NoMap
  /\ jumpPatches' = <<>>
  /\ placed' = {}
  /\ pending' = <<>>
  /\ ast' = Null
  /\ ifMarks' = <<>>
  /\ loopMarks' = <<>>
  /\ marks' = <<>>
  /\ loopStack' = <<>>
  /\ errors' = <<>>
  /\ constLog' = <<>>
  /\ binary' = <<>>

\* The caller invokes an entry point.
Call ==
  /\ pc = "idle"
  /\ Len(calls) < MaxCalls
  /\ \E in \in CallInputs : Invoke(in)
  /\ UNCHANGED <<calls, workerVars>>

\* The call returns its Buffer or throws its Error to the caller.
Return ==
  /\ pc \in {"returned", "failed"}
  /\ calls' = Append(calls, [rev |-> rev, source |-> source, program |-> program,
                             binary |-> binary, error |-> error])
  /\ pc' = "idle"
  /\ UNCHANGED <<rev, error, bytecode, constants, netVars, textVars, binary, workerVars>>

InitCalls ==
  /\ rev = "PBO3"
  /\ pc = "idle"
  /\ error = NoError
  /\ bytecode = <<>>
  /\ constants = <<>>
  /\ program = NoGraph
  /\ blockIds = {}
  /\ successors = NoMap
  /\ predecessors = NoMap
  /\ startId = Undefined
  /\ blockConstIdx = NoMap
  /\ blockStartPos = NoMap
  /\ jumpPatches = <<>>
  /\ placed = {}
  /\ pending = <<>>
  /\ source = <<>>
  /\ lexPos = 0
  /\ tokens = <<>>
  /\ ast = Null
  /\ ifMarks = <<>>
  /\ loopMarks = <<>>
  /\ marks = <<>>
  /\ loopStack = <<>>
  /\ errors = <<>>
  /\ constLog = <<>>
  /\ binary = <<>>
  /\ calls = <<>>
  /\ NoWorker

NextCalls == Call \/ NextCompile \/ NextNet \/ Return

SpecCalls == InitCalls /\ [][NextCalls]_vars

\* C14: any two calls of the same entry point with the same argument have
\* the same outcome, the same bytes returned or the same Error thrown,
\* whatever calls were made before or between them.
C14_Deterministic ==
  \A i, j \in DOMAIN calls :
    (calls[i].rev = calls[j].rev /\ calls[i].source = calls[j].source
       /\ calls[i].program = calls[j].program)
    => (calls[i].binary = calls[j].binary /\ calls[i].error = calls[j].error)

\* C14 witness: the same source has been compiled twice with success, with
\* a call on another input between the two.
C14_Witness ==
  /\ Len(calls) = 3
  /\ calls[1].rev = "PBO3" /\ calls[1].error = NoError
  /\ calls[3].rev = calls[1].rev /\ calls[3].source = calls[1].source
  /\ calls[2].rev # calls[1].rev
  /\ calls[2].error = NoError

(***************************************************************************)
(* Claims about the constant pool.                                         *)
(***************************************************************************)
\* The values of the first k addConstant calls of the emit.
ValuesBefore(k) == { constLog[m].value : m \in 1..(k - 1) }

\* C15: after the addConstant calls of an emit no two entries of the pool
\* are equal; each call returned the index at which the pool holds its
\* value, the same index for equal values; a value not seen before got the
\* next index, so the indices are 0..n-1 in order of first occurrence.
C15_ConstantPool ==
  Emitted =>
    /\ \A i, j \in DOMAIN constants : constants[i] = constants[j] => i = j
    /\ \A k \in DOMAIN constLog :
         /\ constLog[k].idx \in 0..(Len(constants) - 1)
         /\ constants[constLog[k].idx + 1] = constLog[k].value
         /\ constLog[k].value \notin ValuesBefore(k)
              => constLog[k].idx = Cardinality(ValuesBefore(k))
    /\ \A k, l \in DOMAIN constLog :
         constLog[k].value = constLog[l].value => constLog[k].idx = constLog[l].idx
    /\ Len(constants) = Cardinality(ValuesBefore(Len(constLog) + 1))

\* C15 witness: an emit has called addConstant twice with one value and
\* holds at least two constants.
C15_Witness ==
  /\ Emitted
  /\ Len(constants) >= 2
  /\ \E k, l \in DOMAIN constLog : k # l /\ constLog[k].value = constLog[l].value

-----------------------------------------------------------------------------
\* C16

\* A break or continue of the tree that no loop of its own function encloses;
\* inLoop says whether a loop of the current function encloses the node.
RECURSIVE StrayJump(_, _)
StrayJump(node, inLoop) ==
  IF node = Null THEN FALSE
  ELSE IF node.type \in {"BreakStatement", "ContinueStatement"} THEN ~inLoop
  ELSE IF node.type \in {"Program", "BlockStatement"}
  THEN \E i \in 1..Len(node.body) : StrayJump(node.body[i], inLoop)
  ELSE IF node.type = "FunctionDeclaration" THEN StrayJump(node.body, FALSE)
  ELSE IF node.type = "WhileStatement" THEN StrayJump(node.body, TRUE)
  ELSE FALSE

\* C16: a program holding a break or continue statement that is not inside
\* the body of a loop of the same function never gets past code emission:
\* no bytecode is handed on and no binary is returned.
C16_JumpOutsideLoopFails ==
  pc \in {"done", "returned"} => ~StrayJump(ast, FALSE)

\* The emitter does raise the error when no loop at all encloses the jump.
C16_TopLevelJumpFails ==
  /\ pc = "failed"
  /\ error \in {ErrBreakOutside, ErrContinueOutside}
  /\ StrayJump(ast, FALSE)

-----------------------------------------------------------------------------
\* C17

\* validateSemantics has run on the tree.
Validated == ast # Null /\ pc \notin {"tokenize", "parse", "semantics"}

\* The names a statement declares in the scope it stands in.
RECURSIVE DeclaredBy(_)
DeclaredBy(node) ==
  IF node = Null THEN <<>>
  ELSE IF node.type = "VariableDeclaration" THEN <<node.declarations[1].id.name>>
  ELSE IF node.type = "FunctionDeclaration" THEN <<node.name>>
  ELSE IF node.type = "WhileStatement" THEN DeclaredBy(node.body)
  ELSE IF node.type = "IfStatement"
  THEN LET c == DeclaredBy(node.consequent)
           a == DeclaredBy(node.alternate)
       IN  c \o a
  ELSE <<>>

RECURSIVE DeclaredByEach(_)
DeclaredByEach(list) ==
  IF list = <<>> THEN <<>>
  ELSE LET h == DeclaredBy(Head(list))
           t == DeclaredByEach(Tail(list))
       IN  h \o t

\* The scopes of a tree, each the sequence of the names declared in it: the
\* program, each block, each parameter list, each for header, each catch
\* parameter and each switch case. x is a node, a statement list ("list")
\* or the cases of a switch ("cases").
RECURSIVE ScopesOf(_, _)
ScopesOf(x, kind) ==
  IF kind = "list"
  THEN IF x = <<>> THEN <<>>
       ELSE LET h == ScopesOf(Head(x), "node")
                t == ScopesOf(Tail(x), "list")
            IN  h \o t
  ELSE IF kind = "cases"
  THEN IF x = <<>> THEN <<>>
       ELSE LET h == ScopesOf(Head(x).consequent, "list")
                t == ScopesOf(Tail(x), "cases")
            IN  <<DeclaredByEach(Head(x).consequent)>> \o h \o t
  ELSE IF x = Null THEN <<>>
  ELSE IF x.type \in {"Program", "BlockStatement"}
  THEN LET inner == ScopesOf(x.body, "list") IN <<DeclaredByEach(x.body)>> \o inner
  ELSE IF x.type = "FunctionDeclaration"
  THEN LET inner == ScopesOf(x.body, "node") IN <<x.params>> \o inner
  ELSE IF x.type = "WhileStatement" THEN ScopesOf(x.body, "node")
  ELSE IF x.type = "IfStatement"
  THEN LET c == ScopesOf(x.consequent, "node")
           a == ScopesOf(x.alternate, "node")
       IN  c \o a
  ELSE IF x.type = "ForStatement"
  THEN LET inner == ScopesOf(x.body, "node") IN <<DeclaredBy(x.init)>> \o inner
  ELSE IF x.type = "ForInStatement"
  THEN LET inner == ScopesOf(x.body, "node") IN <<<<x.left.name>>>> \o inner
  ELSE IF x.type = "TryStatement"
  THEN LET b == ScopesOf(x.block, "node")
           c == IF x.catchClause = Null THEN <<>>
                ELSE LET inner == ScopesOf(x.catchClause.body, "node")
                     IN  <<<<x.catchClause.param.name>>>> \o inner
           f == ScopesOf(x.finalizer, "node")
       IN  b \o c \o f
  ELSE IF x.type = "SwitchStatement" THEN ScopesOf(x.cases, "cases")
  ELSE <<>>

\* How often the scope declares the name again.
Repeats(scope, name) ==
  LET n == Cardinality({ i \in DOMAIN scope : scope[i] = name })
  IN  IF n = 0 THEN 0 ELSE n - 1

RECURSIVE SumRepeats(_, _)
SumRepeats(scopes, name) ==
  IF scopes = <<>> THEN 0
  ELSE LET t == SumRepeats(Tail(scopes), name) IN Repeats(Head(scopes), name) + t

Occurrences(list, x) == Cardinality({ i \in DOMAIN list : list[i] = x })

\* The identifiers of the source texts and trees.
SourceNames == {"a", "b", "f", "x", "y", "z", "w", "log", "console"}

\* C17: validateSemantics collects 'Duplicate declaration: n' once for each
\* declaration of n in a scope that has declared n before, and for no other
\* declaration: a name bound in an enclosing scope may be declared again in
\* a nested block, function, for header, catch or switch case scope.
C17_DuplicateDeclaration ==
  Validated =>
    \A n \in SourceNames :
      Occurrences(errors, "Duplicate declaration: " \o n)
        = SumRepeats(ScopesOf(ast, "node"), n)

\* let a; { let a; let a; }: one diagnostic, for the second declaration of
\* the block, none for the first, which repeats the name of the program scope.
C17_Witness ==
  /\ Validated
  /\ ast = Program(<<VariableDeclaration("a", Null),
                     BlockStatement(<<VariableDeclaration("a", Null),
                                      VariableDeclaration("a", Null)>>)>>)
  /\ errors = <<"Duplicate declaration: a">>
  /\ error = "Semantic errors:\nDuplicate declaration: a"

-----------------------------------------------------------------------------
\* C18

\* The tree holds a member access.
RECURSIVE HasMember(_)
HasMember(node) ==
  IF node = Null THEN FALSE
  ELSE CASE node.type = "MemberExpression" -> TRUE
    [] node.type \in {"Program", "BlockStatement"} ->
         \E i \in DOMAIN node.body : HasMember(node.body[i])
    [] node.type = "FunctionDeclaration" -> HasMember(node.body)
    [] node.type = "VariableDeclaration" -> HasMember(node.declarations[1].init)
    [] node.type = "ExpressionStatement" -> HasMember(node.expression)
    [] node.type \in {"AssignmentExpression", "BinaryExpression"} ->
         HasMember(node.left) \/ HasMember(node.right)
    [] node.type = "IfStatement" ->
         HasMember(node.test) \/ HasMember(node.consequent) \/ HasMember(node.alternate)
    [] node.type = "WhileStatement" -> HasMember(node.test) \/ HasMember(node.body)
    [] node.type = "ForStatement" ->
         \/ HasMember(node.init) \/ HasMember(node.test)
         \/ HasMember(node.update) \/ HasMember(node.body)
    [] node.type = "ForInStatement" -> HasMember(node.right) \/ HasMember(node.body)
    [] node.type = "TryStatement" ->
         \/ HasMember(node.block) \/ HasMember(node.finalizer)
         \/ node.catchClause # Null /\ HasMember(node.catchClause.body)
    [] node.type = "SwitchStatement" ->
         \/ HasMember(node.discriminant)
         \/ \E i \in DOMAIN node.cases :
              \/ HasMember(node.cases[i].test)
              \/ \E j \in DOMAIN node.cases[i].consequent :
                   HasMember(node.cases[i].consequent[j])
    [] OTHER -> FALSE

DuplicateOf(name) == "Duplicate declaration: " \o name
UndefinedOf(name) == "Undefined variable: " \o name

\* The names of the list that an earlier place of the list holds too.
RepeatedIn(names) ==
  LET again == [i \in DOMAIN names |-> \E j \in 1..(i - 1) : names[j] = names[i]]
      pick(i) == IF again[i] THEN <<DuplicateOf(names[i])>> ELSE <<>>
      upTo[i \in 0..Len(names)] == IF i = 0 THEN <<>> ELSE upTo[i - 1] \o pick(i)
  IN  upTo[Len(names)]

\* The faults of a tree in the order of the text: a declaration of a name
\* that the innermost scope holds, a reference to a name that no scope
\* holds and that is no global. inner holds the names of the innermost
\* scope so far, outer those of the scopes around it; x is a node, a
\* statement list ("list") or the cases of a switch ("cases"). The
\* property name of a member access is no reference.
RECURSIVE Faults(_, _, _, _)
Faults(x, kind, inner, outer) ==
  LET all       == inner \cup outer
      Named(l)  == { l[i] : i \in DOMAIN l }
  IN
  IF kind = "list"
  THEN IF x = <<>> THEN <<>>
       ELSE LET h == Faults(Head(x), "node", inner, outer)
                t == Faults(Tail(x), "list", inner \cup Named(DeclaredBy(Head(x))), outer)
            IN  h \o t
  ELSE IF kind = "cases"
  THEN IF x = <<>> THEN <<>>
       ELSE LET c == Faults(Head(x).test, "node", inner, outer)
                b == Faults(Head(x).consequent, "list", {}, all)
                t == Faults(Tail(x), "cases", inner, outer)
            IN  c \o b \o t
  ELSE IF x = Null THEN <<>>
  ELSE CASE x.type = "Program" -> Faults(x.body, "list", inner, outer)
    [] x.type = "BlockStatement" -> Faults(x.body, "list", {}, all)
    [] x.type = "VariableDeclaration" ->
         LET name == x.declarations[1].id.name
             init == Faults(x.declarations[1].init, "node", inner \cup {name}, outer)
         IN  (IF name \in inner THEN <<DuplicateOf(name)>> ELSE <<>>) \o init
    [] x.type = "FunctionDeclaration" ->
         LET body == Faults(x.body, "node", Named(x.params), all \cup {x.name})
         IN  (IF x.name \in inner THEN <<DuplicateOf(x.name)>> ELSE <<>>)
               \o RepeatedIn(x.params) \o body
    [] x.type = "ExpressionStatement" -> Faults(x.expression, "node", inner, outer)
    [] x.type \in {"AssignmentExpression", "BinaryExpression"} ->
         LET l == Faults(x.left, "node", inner, outer)
             r == Faults(x.right, "node", inner, outer)
         IN  l \o r
    [] x.type = "MemberExpression" -> Faults(x.object, "node", inner, outer)
    [] x.type = "Identifier" ->
         IF x.name \in all \/ isGlobal(x.name) THEN <<>> ELSE <<UndefinedOf(x.name)>>
    [] x.type = "IfStatement" ->
         LET t == Faults(x.test, "node", inner, outer)
             c == Faults(x.consequent, "node", inner, outer)
             a == Faults(x.alternate, "node",
                         inner \cup Named(DeclaredBy(x.consequent)), outer)
         IN  t \o c \o a
    [] x.type = "WhileStatement" ->
         LET t == Faults(x.test, "node", inner, outer)
             b == Faults(x.body, "node", inner, outer)
         IN  t \o b
    [] x.type = "ForStatement" ->
         LET head == Named(DeclaredBy(x.init))
             i    == Faults(x.init, "node", {}, all)
             t    == Faults(x.test, "node", head, all)
             u    == Faults(x.update, "node", head, all)
             b    == Faults(x.body, "node", head, all)
         IN  i \o t \o u \o b
    [] x.type = "ForInStatement" ->
         LET r == Faults(x.right, "node", {x.left.name}, all)
             b == Faults(x.body, "node", {x.left.name}, all)
         IN  r \o b
    [] x.type = "TryStatement" ->
         LET b == Faults(x.block, "node", inner, outer)
             c == IF x.catchClause = Null THEN <<>>
                  ELSE Faults(x.catchClause.body, "node", {x.catchClause.param.name}, all)
             f == Faults(x.finalizer, "node", inner, outer)
         IN  b \o c \o f
    [] x.type = "SwitchStatement" ->
         LET d == Faults(x.discriminant, "node", inner, outer)
             c == Faults(x.cases, "cases", inner, outer)
         IN  d \o c
    [] OTHER -> <<>>

\* The message of the one error for the diagnostics.
RECURSIVE Listing(_)
Listing(lines) ==
  IF lines = <<>> THEN "Semantic errors:"
  ELSE Listing(SubSeq(lines, 1, Len(lines) - 1)) \o "\n" \o lines[Len(lines)]

-----------------------------------------------------------------------------
\* C19

\* C19: validateSemantics collects 'Undefined variable: n' once for each
\* reference to a name n that no enclosing scope binds and that is no
\* built-in, and for nothing else; the property name of a member access
\* such as log in console.log is no reference and is not reported.
C19_UndefinedVariable ==
  Validated =>
    \A n \in SourceNames :
      Occurrences(errors, UndefinedOf(n))
        = Occurrences(Faults(ast, "node", {}, {}), UndefinedOf(n))

\* Apart from property names the diagnostics are those of the references
\* to unbound names that are no built-ins.
C19_UnboundReported ==
  /\ Validated
  /\ ~HasMember(ast)
  /\ \E n \in SourceNames : Occurrences(errors, UndefinedOf(n)) > 0
  /\ \A n \in SourceNames :
       Occurrences(errors, UndefinedOf(n))
         = Occurrences(Faults(ast, "node", {}, {}), UndefinedOf(n))

-----------------------------------------------------------------------------
\* C20

\* The tokens hold an interpolation of a template literal.
HasInterpolation == \E i \in DOMAIN tokens : tokens[i].type = "TEMPLATE_EXPR"

\* op with the index of the value in the constant pool
WithConst(op, value) ==
  <<op>> \o U32Bytes((CHOOSE i \in DOMAIN constants : constants[i] = value) - 1)

\* PUSH_CONST "a"; LOAD_VAR x; PUSH_CONST "b"; ADD; ADD; LOAD_VAR y;
\* PUSH_CONST "c"; ADD; ADD
LoweredTemplate ==
  WithConst(OP.PUSH_CONST, Str("a")) \o WithConst(OP.LOAD_VAR, Str("x"))
    \o WithConst(OP.PUSH_CONST, Str("b")) \o <<OP.ADD, OP.ADD>>
    \o WithConst(OP.LOAD_VAR, Str("y")) \o WithConst(OP.PUSH_CONST, Str("c"))
    \o <<OP.ADD, OP.ADD>>

\* C20: a source whose template literal has interpolations is accepted:
\* the compile does not fail on a source whose tokens hold an interpolation
\* and whose names are declared, and the code emitted for the literal of
\* a, x, b, y, c is PUSH_CONST "a"; LOAD_VAR x; PUSH_CONST "b"; ADD; ADD;
\* LOAD_VAR y; PUSH_CONST "c"; ADD; ADD.
C20_TemplateLowered ==
  HasInterpolation /\ pc \notin {"tokenize", "parse"} =>
    /\ error # ErrParserNotDefined
    /\ pc \in {"done", "returned"} /\ Str("c") \in { constants[i] : i \in DOMAIN constants }
         => \E o \in 1..Len(bytecode) :
              SubSeq(bytecode, o, o + Len(LoweredTemplate) - 1) = LoweredTemplate

\* A template literal without interpolation is accepted: one PUSH_CONST.
C20_PlainTemplate ==
  /\ pc = "returned"
  /\ \E i \in DOMAIN tokens : tokens[i].type = "TEMPLATE"
  /\ bytecode = WithConst(OP.PUSH_CONST, Str("ab")) \o <<OP.POP, OP.HALT>>

-----------------------------------------------------------------------------
\* C21

\* The break and continue statements of a tree.
RECURSIVE JumpsIn(_)
JumpsInEach(list) ==
  IF list = <<>> THEN 0
  ELSE JumpsIn(Head(list)) + JumpsIn(BlockStatement(Tail(list)))

JumpsIn(node) ==
  IF node = Null THEN 0
  ELSE CASE node.type \in {"BreakStatement", "ContinueStatement"} -> 1
         [] node.type \in {"Program", "BlockStatement"} -> JumpsInEach(node.body)
         [] node.type = "IfStatement" ->
              JumpsIn(node.consequent) + JumpsIn(node.alternate)
         [] node.type \in {"WhileStatement", "ForStatement", "ForInStatement",
                           "FunctionDeclaration"} -> JumpsIn(node.body)
         [] OTHER -> 0

RECURSIVE PatchesOf(_, _)
PatchesOf(loops, i) ==
  IF i > Len(loops) THEN 0
  ELSE Len(loops[i].breakPatches) + Len(loops[i].continuePatches)
       + PatchesOf(loops, i + 1)

\* C21: when a loop closes, every break JMP of its frame targets the first
\* byte after the loop and every continue JMP the loop's continue target (in
\* a for loop the first byte of the update code, else the JMP back to the
\* test); once the code is emitted the loop stack is empty and every break
\* and continue of the program is a JMP some loop has patched.
C21_LoopPatchesResolved ==
  (Emitted /\ rev = "PBO3") =>
    /\ loopStack = <<>>
    /\ PatchesOf(loopMarks, 1) = JumpsIn(ast)
    /\ \A i \in DOMAIN loopMarks :
         LET m == loopMarks[i] IN
         /\ \A j \in DOMAIN m.breakPatches :
              /\ bytecode[m.breakPatches[j] + 1] = OP.JMP
              /\ JumpTarget(bytecode, m.breakPatches[j]) = m.afterLoop
         /\ \A j \in DOMAIN m.continuePatches :
              /\ bytecode[m.continuePatches[j] + 1] = OP.JMP
              /\ JumpTarget(bytecode, m.continuePatches[j]) = m.continueTarget
         /\ m.continueTarget \in TextStarts(rev, bytecode, 0)
         /\ IF m.kind = "ForStatement" /\ m.continueTarget # m.operand - 1
            THEN /\ bytecode[m.continueTarget + 1] = OP.LOAD_VAR
                 /\ m.continueTarget + 5 = m.operand - 1
            ELSE m.continueTarget = m.operand - 1

\* C21 witness: an emitted program with a for loop that has update code and
\* patched a continue, and a loop that patched a break.
C21_Witness ==
  /\ Emitted /\ rev = "PBO3"
  /\ \E i \in DOMAIN loopMarks :
       /\ loopMarks[i].kind = "ForStatement"
       /\ loopMarks[i].continuePatches # <<>>
       /\ loopMarks[i].continueTarget # loopMarks[i].operand - 1
  /\ \E i \in DOMAIN loopMarks : loopMarks[i].breakPatches # <<>>

-----------------------------------------------------------------------------
\* C22

\* C22: in the code of a for-in/for-of loop the JNZ emitted after reading
\* `done` targets the first byte after the loop, the byte that follows the
\* JMP back, and that JMP targets the LOAD_VAR of the iterator at loop start.
C22_ForInJumpTargets ==
  (Emitted /\ rev = "PBO3") =>
    \A i \in DOMAIN loopMarks :
      LET m == loopMarks[i] IN
      m.kind = "ForInStatement" =>
        /\ bytecode[m.exitPos] = OP.JNZ
        /\ bytecode[m.loopStart + 1] = OP.LOAD_VAR
        /\ m.afterLoop = m.operand + 2
        /\ JumpTarget(bytecode, m.exitPos - 1) = m.afterLoop
        /\ JumpTarget(bytecode, m.operand - 1) = m.loopStart

\* What the emitted displacements are: the JNZ lands four bytes past the
\* end of the loop and the JMP back one byte before the loop start.
C22_ForInJumpsAsEmitted ==
  (Emitted /\ rev = "PBO3") =>
    \A i \in DOMAIN loopMarks :
      LET m == loopMarks[i] IN
      m.kind = "ForInStatement" =>
        /\ JumpTarget(bytecode, m.exitPos - 1) = m.afterLoop + 4
        /\ JumpTarget(bytecode, m.operand - 1) = m.loopStart - 1

-----------------------------------------------------------------------------
\* C23

TryMarks == { i \in DOMAIN marks : marks[i].kind = "TryStatement" }

\* C23: at the end of the protected block of every try statement there is an
\* unconditional JMP; it targets the FINALLY marker when the statement has a
\* finalizer and else the first byte after the whole try statement, so that
\* the block, completing normally, never runs into the CATCH handler.
C23_TryBlockJumpsOverCatch ==
  Emitted =>
    \A i \in TryMarks :
      LET m == marks[i] IN
      /\ bytecode[m.tryEnd + 1] = OP.JMP
      /\ JumpTarget(bytecode, m.tryEnd) =
           (IF m.finallyStart # -1 THEN m.finallyStart ELSE m.end)
      /\ m.finallyStart # -1 => bytecode[m.finallyStart + 1] = OP.FINALLY

\* What the emitter does: without a finalizer the block is followed at once
\* by what comes next, the CATCH handler if there is one; with a finalizer
\* the JMP targets the CATCH handler if there is one, else the FINALLY marker.
C23_TryAsEmitted ==
  Emitted =>
    \A i \in TryMarks :
      LET m == marks[i] IN
      IF m.finallyStart = -1
      THEN /\ m.catchStart \in {-1, m.tryEnd}
           /\ m.catchStart = m.tryEnd => bytecode[m.tryEnd + 1] = OP.CATCH
      ELSE /\ bytecode[m.tryEnd + 1] = OP.JMP
           /\ JumpTarget(bytecode, m.tryEnd) =
                (IF m.catchStart # -1 THEN m.catchStart ELSE m.finallyStart)

-----------------------------------------------------------------------------
\* C24

LogicalMarks == { i \in DOMAIN marks : marks[i].kind = "LogicalExpression" }

\* C24: for `a && b` and `a || b` the code of a is followed by DUP, then by
\* JZ (for &&) or JNZ (for ||) whose target is the first byte after the code
\* of b, then by the code of b: a taken branch leaves the value of a on the
\* stack, the other path the value of b.
C24_ShortCircuit ==
  Emitted =>
    \A i \in LogicalMarks :
      LET m == marks[i] IN
      m.operator \in {"&&", "||"} =>
        /\ bytecode[m.leftEnd + 1] = OP.DUP
        /\ bytecode[m.leftEnd + 2] = (IF m.operator = "&&" THEN OP.JZ ELSE OP.JNZ)
        /\ JumpTarget(bytecode, m.leftEnd + 1) = m.end

\* What the emitter does: the jump follows the code of a at once, no DUP
\* between them; its target is the first byte after the code of b.
C24_LogicalAsEmitted ==
  Emitted =>
    \A i \in LogicalMarks :
      LET m == marks[i] IN
      /\ bytecode[m.leftEnd + 1] = (IF m.operator = "||" THEN OP.JNZ ELSE OP.JZ)
      /\ JumpTarget(bytecode, m.leftEnd) = m.end
      /\ m.leftEnd \in TextStarts(rev, bytecode, 0)

-----------------------------------------------------------------------------
\* C25

\* What STORE_VAR does to the operand stack: it pops the value it stores
\* (-1) or leaves it where it is (0).
StoreEffects == {-1, 0}

\* The values x can hold before the code runs.
OldValues == {0, 5}

Pop(stack, n) == SubSeq(stack, 1, Len(stack) - n)
Top(stack, k) == stack[Len(stack) - k]

\* The stack and the variable x after the straight-line code from offset p
\* to offset end has run, STORE_VAR having the effect e.
RECURSIVE Run(_, _, _, _, _)
Run(p, end, stack, x, e) ==
  IF p >= end THEN [stack |-> stack, x |-> x]
  ELSE LET op == bytecode[p + 1] IN
       CASE op = OP.PUSH_CONST ->
              Run(p + 5, end, Append(stack, constants[ReadU32(bytecode, p + 1) + 1].v), x, e)
         [] op = OP.LOAD_VAR -> Run(p + 5, end, Append(stack, x), x, e)
         [] op = OP.STORE_VAR ->
              Run(p + 5, end, Pop(stack, -e), Top(stack, 0), e)
         [] op = OP.DUP -> Run(p + 1, end, Append(stack, Top(stack, 0)), x, e)
         [] op = OP.POP -> Run(p + 1, end, Pop(stack, 1), x, e)
         [] op = OP.ADD ->
              Run(p + 1, end, Append(Pop(stack, 2), Top(stack, 1) + Top(stack, 0)), x, e)
         [] op = OP.SUB ->
              Run(p + 1, end, Append(Pop(stack, 2), Top(stack, 1) - Top(stack, 0)), x, e)

Ran(m, e, old) == Run(m.start, m.end, <<>>, old, e)

NewValue(node, old) == IF node.operator = "++" THEN old + 1 ELSE old - 1

\* The statements `let x;` and `x = 1;` and the updates of x of the program.
Neutral ==
  { i \in DOMAIN marks :
      \/ marks[i].kind = "VariableDeclaration"
      \/ /\ marks[i].kind = "ExpressionStatement"
         /\ marks[i].node.expression.type = "AssignmentExpression"
         /\ marks[i].node.expression.right.type = "Literal" }

UpdateMarks == { i \in DOMAIN marks : marks[i].kind = "UpdateExpression" }

UpdateAsClaimed(m, e) ==
  \A old \in OldValues :
    /\ Ran(m, e, old).stack = <<IF m.node.prefix THEN NewValue(m.node, old) ELSE old>>
    /\ Ran(m, e, old).x = NewValue(m.node, old)

\* C25: there is one stack effect of STORE_VAR under which `let x;` and the
\* statement `x = 1;` leave the depth of the operand stack as it was and the
\* code of every update of an identifier leaves exactly one value, the old
\* value for x++ and x--, the new value for ++x and --x, the variable
\* holding the new value.
C25_UpdateLeavesOneValue ==
  Emitted =>
    \E e \in StoreEffects :
      /\ \A i \in Neutral : \A old \in OldValues : Ran(marks[i], e, old).stack = <<>>
      /\ \A i \in UpdateMarks : UpdateAsClaimed(marks[i], e)

\* Even the updates alone have no such effect: the postfix code is as
\* claimed when STORE_VAR pops, the prefix code when it does not.
C25_UpdatesAlone ==
  Emitted => \E e \in StoreEffects : \A i \in UpdateMarks : UpdateAsClaimed(marks[i], e)

C25_UpdatesAsEmitted ==
  Emitted =>
    \A i \in UpdateMarks :
      /\ UpdateAsClaimed(marks[i], IF marks[i].node.prefix THEN 0 ELSE -1)
      /\ ~UpdateAsClaimed(marks[i], IF marks[i].node.prefix THEN -1 ELSE 0)

-----------------------------------------------------------------------------
\* C26

SwitchMarks == { i \in DOMAIN marks : marks[i].kind = "SwitchStatement" }

\* Where the body of case i ends: its JMP is the three bytes before.
BodyEnd(m, i) ==
  IF i < Len(m.caseStartPositions) THEN m.caseStartPositions[i + 1] ELSE m.end

C26_SwitchAsEmitted ==
  Emitted =>
    \A s \in SwitchMarks :
      LET m == marks[s] IN
      /\ \A k \in DOMAIN m.caseJumps :
           JumpTarget(bytecode, m.caseJumps[k].jzPos) = BodyEnd(m, m.caseJumps[k].target)
      /\ \A i \in DOMAIN m.caseStartPositions :
           /\ bytecode[BodyEnd(m, i) - 2] = OP.JMP
           /\ JumpTarget(bytecode, BodyEnd(m, i) - 3) = BodyEnd(m, i)
      /\ JumpTarget(bytecode, m.defaultJmpPos) =
           (IF m.defaultOffset # <<>> THEN m.caseStartPositions[m.defaultOffset[1]]
                                     ELSE m.end)

-----------------------------------------------------------------------------
\* C27

\* The placed blocks that are neither `if` nor `loop`.
PlainPlaced == { id \in DOMAIN blockStartPos : ~IsBranch(BlockOf(id)) }

\* The opcode at offset p of the code, -1 past its end.
NetOpAt(p) == IF p < Len(bytecode) THEN bytecode[p + 1] ELSE -1

FallsThrough(id) == blockStartPos[successors[id][1]] = blockStartPos[id] + 5

JumpsTo(id) ==
  /\ NetOpAt(blockStartPos[id] + 5) = NBO1_OP.JMP
  /\ blockStartPos[id] + 8 <= Len(bytecode)
  /\ JumpTarget(bytecode, blockStartPos[id] + 5) = blockStartPos[successors[id][1]]

\* C27: in the code generateNetworkBytecode returns, a placed block that is
\* neither `if` nor `loop` and has one successor s is followed at once by the
\* EXEC_BLOCK of s, or by a JMP whose target is the EXEC_BLOCK of s; a block
\* without successor is followed at once by HALT.
C27_PlainBlockSuccessor ==
  (pc = "done" /\ rev = "NBO1") =>
    /\ \A id \in PlainPlaced :
         /\ NetOpAt(blockStartPos[id]) = NBO1_OP.EXEC_BLOCK
         /\ Len(successors[id]) = 1 =>
              /\ successors[id][1] \in DOMAIN blockStartPos
              /\ FallsThrough(id) \/ JumpsTo(id)
    /\ \A id \in DOMAIN blockStartPos :
         Len(successors[id]) = 0 => NetOpAt(blockStartPos[id] + 5) = NBO1_OP.HALT

\* C27 witness: a returned code in which one block falls through to its
\* successor and another, whose successor was placed before it, jumps back.
C27_Witness ==
  /\ pc = "done" /\ rev = "NBO1"
  /\ \E id \in PlainPlaced : Len(successors[id]) = 1 /\ FallsThrough(id)
  /\ \E id \in PlainPlaced :
       /\ Len(successors[id]) = 1
       /\ JumpsTo(id)
       /\ blockStartPos[successors[id][1]] < blockStartPos[id]

-----------------------------------------------------------------------------
\* C28

\* One iteration of the layout loop discards the id it shifted, which is
\* placed already, or places it, a block that was not placed before.
LayoutIteration ==
  (pc = "layout" /\ pending # <<>>) =>
    \/ /\ Head(pending) \in placed
       /\ placed' = placed
       /\ pending' = Tail(pending)
       /\ bytecode' = bytecode
    \/ /\ Head(pending) \notin placed
       /\ placed' = placed \cup {Head(pending)}
       /\ Len(bytecode') > Len(bytecode)

\* C28: the layout worklist of generateNetworkBytecode terminates: every
\* iteration discards an id that is placed already or places a block that was
\* not placed, and from every state of the loop the pending list becomes
\* empty, or the iteration throws, also when the graph has cycles.
C28_LayoutTerminates ==
  /\ [][LayoutIteration]_vars
  /\ (pc = "layout") ~> (pc \in {"done", "failed"})
  /\ [](pc = "done" => pending = <<>>)

\* C28 witness: the loop has shifted the ids of a graph with an edge back to
\* a placed block, and the id at the head of the worklist is placed already.
C28_Witness ==
  /\ pc = "layout"
  /\ pending # <<>>
  /\ Head(pending) \in placed
  /\ \E id \in placed : \E k \in DOMAIN successors[id] : successors[id][k] \in placed

-----------------------------------------------------------------------------
(***************************************************************************)
(* The worker (src/index.js).  Its fetch handler serves POST / (create),   *)
(* GET /<id> (public page) and POST /admin/<token> (update) over the rows  *)
(* of the programs table, one request after the other.  A request that     *)
(* compiles runs the entry point's steps between the handler's two halves. *)
(***************************************************************************)
MaxRequests == 2    \* the worker answers at most this many requests

\* generateAdminToken(): the strings the random bytes can spell
AdminTokens == {"t1", "t2"}

\* The program texts a client posts: let x; and x;
WorkerTexts ==
  { <<"l", "e", "t", " ", "x", ";">>,
    <<"x", ";">> }

Quoted(x) == <<Quote>> \o Chars(x) \o <<Quote>>

\* The texts, separated by commas.
RECURSIVE Joined(_)
Joined(texts) ==
  IF texts = <<>> THEN <<>>
  ELSE IF Len(texts) = 1 THEN texts[1]
  ELSE texts[1] \o <<",">> \o Joined(Tail(texts))

\* {"id":"A","type":"start"}, with ,"config":{...} where the block has one
BlockText(block) ==
  <<"{", Quote, "i", "d", Quote, ":">> \o Quoted(block.id)
  \o <<",", Quote, "t", "y", "p", "e", Quote, ":">> \o Quoted(block.type)
  \o (IF HasConfig(block)
      THEN <<",", Quote, "c", "o", "n", "f", "i", "g", Quote, ":">>
           \o ConfigJson(block.config)
      ELSE <<>>)
  \o <<"}">>

\* {"from":"A","to":"B"}
ConnectionText(conn) ==
  <<"{", Quote, "f", "r", "o", "m", Quote, ":">> \o Quoted(conn.from)
  \o <<",", Quote, "t", "o", Quote, ":">> \o Quoted(conn.to) \o <<"}">>

\* The JSON text a client posts for a graph:
\* {"blocks":[...],"connections":[...]}
GraphText(g) ==
  <<"{", Quote, "b", "l", "o", "c", "k", "s", Quote, ":", "[">>
  \o Joined([i \in DOMAIN g.blocks |-> BlockText(g.blocks[i])])
  \o <<"]", ",", Quote, "c", "o", "n", "n", "e", "c", "t", "i", "o", "n", "s", Quote,
       ":", "[">>
  \o Joined([i \in DOMAIN g.connections |-> ConnectionText(g.connections[i])])
  \o <<"]", "}">>

ErrSyntax == "SyntaxError"

\* const blocks = JSON.parse(sourceCode): the graph the text writes, or the
\* SyntaxError thrown for a text that is not JSON (every program text).
JSONparse(text) ==
  IF \E g \in CallGraphs : GraphText(g) = text
  THEN [error |-> NoError, value |-> CHOOSE g \in CallGraphs : GraphText(g) = text]
  ELSE [error |-> ErrSyntax, value |-> NoGraph]

HexDigits ==
  <<"0", "1", "2", "3", "4", "5", "6", "7", "8", "9", "a", "b", "c", "d", "e", "f">>

\* '\\x' + Buffer.from(buffer).toString('hex')
bufferToHex(buffer) ==
  <<"\\", "x">> \o
  [i \in 1..(2 * Len(buffer)) |->
     IF i % 2 = 1 THEN HexDigits[(buffer[(i + 1) \div 2] \div 16) + 1]
     ELSE HexDigits[(buffer[i \div 2] % 16) + 1]]

\* unsafe.replace(/&/g, '&amp;') ... .replace(/'/g, '&#039;'): per character
escapeHtml(unsafe) ==
  [i \in DOMAIN unsafe |->
     CASE unsafe[i] = "&" -> "&amp;"
       [] unsafe[i] = "<" -> "&lt;"
       [] unsafe[i] = ">" -> "&gt;"
       [] unsafe[i] = Quote -> "&quot;"
       [] unsafe[i] = "'" -> "&#039;"
       [] OTHER -> unsafe[i]]

\* publicViewHTML(id, program): the values the template interpolates, in
\* the order of the page.
publicViewHTML(id, row) ==
  [title |-> id,
   created |-> row.created_at,
   updated |-> row.updated_at,
   code |-> escapeHtml(row.source_code),
   href |-> <<"admin", row.admin_token>>]

\* The bodies of POST /: source and type, either of them absent or empty.
CreateBodies ==
  LET sources == WorkerTexts \cup {GraphText(g) : g \in CallGraphs} \cup {<<>>}
  IN  { [source |-> s, type |-> t] :
          s \in sources, t \in {"program-bot", "network-bots", "bots"} }
      \cup { [source |-> s] : s \in sources }

\* The bodies of POST /admin/<token>: a program text, or none.
UpdateBodies == { [source |-> s] : s \in WorkerTexts \cup {<<>>} }

\* The handler returns the Response; the compile state is as the last call
\* left it.
Answer(req, status, body) ==
  /\ responses' = Append(responses, [request |-> req, status |-> status, body |-> body])
  /\ request' = NoRequest
  /\ pc' = "idle"

\* The compile call of the request has returned or thrown: it is logged.
Logged ==
  calls' = Append(calls, [rev |-> rev, source |-> request.body.source,
                          binary |-> binary, error |-> error])

CompileUnchanged ==
  UNCHANGED <<rev, error, bytecode, constants, netVars, textVars, binary>>

\* POST /: up to the call of the compiler.
CreateProgram ==
  /\ pc = "idle"
  /\ Len(responses) < MaxRequests
  /\ \E body \in CreateBodies :
       LET req    == [method |-> "POST", path |-> <<>>, body |-> body]
           type   == IF Get(body, "type") = Undefined THEN "program-bot" ELSE body.type
           parsed == JSONparse(body.source)
       IN  IF body.source = <<>>
           THEN Answer(req, 400, [error |-> "Missing source"]) /\ CompileUnchanged
           ELSE IF type = "program-bot"
           THEN /\ Invoke([rev |-> "PBO3", source |-> body.source, program |-> NoGraph])
                /\ request' = req
                /\ UNCHANGED responses
           ELSE IF type = "network-bots"
           THEN IF parsed.error # NoError
                THEN /\ Answer(req, 400, [error |-> "Compilation failed",
                                          details |-> parsed.error])
                     /\ CompileUnchanged
                ELSE /\ Invoke([rev |-> linked, source |-> <<>>,
                                program |-> parsed.value])
                     /\ request' = req
                     /\ UNCHANGED responses
           ELSE Answer(req, 400, [error |-> "Invalid type"]) /\ CompileUnchanged
  /\ UNCHANGED <<calls, linked, programs>>

\* The row the database returns for the insert: id, created_at and
\* updated_at are its column defaults.
Inserted(token, type) ==
  [id |-> Len(programs) + 1,
   admin_token |-> token,
   source_code |-> request.body.source,
   binary |-> bufferToHex(binary),
   created_at |-> Len(responses),
   updated_at |-> Len(responses),
   type |-> type]

\* POST /: the compiler has returned; generateAdminToken, the insert and
\* the Response.  (type is not a column: the row keeps it for the claims.)
CreateInsert ==
  /\ pc = "returned"
  /\ request.method = "POST" /\ request.path = <<>>
  /\ \E token \in AdminTokens, ok \in BOOLEAN :
       LET newRecord == Inserted(token, IF rev = "PBO3" THEN "program-bot"
                                        ELSE "network-bots")
       IN  IF ok
           THEN /\ programs' = Append(programs, newRecord)
                /\ Answer(request, 200, [publicUrl |-> <<newRecord.id>>,
                                         adminUrl |-> <<"admin", token>>])
           ELSE /\ Answer(request, 500, [error |-> "Supabase error"])
                /\ UNCHANGED programs
  /\ Logged
  /\ CompileUnchanged
  /\ UNCHANGED linked

\* catch (err) of the compile call, in POST / and in POST /admin/<token>.
CompilationFailed ==
  /\ pc = "failed"
  /\ request # NoRequest
  /\ Answer(request, 400, [error |-> "Compilation failed", details |-> error])
  /\ Logged
  /\ CompileUnchanged
  /\ UNCHANGED <<linked, programs>>

\* GET /<id>
PublicView ==
  /\ pc = "idle"
  /\ Len(responses) < MaxRequests
  /\ \E id \in 1..MaxRequests, ok \in BOOLEAN :
       LET req  == [method |-> "GET", path |-> <<id>>, body |-> [source |-> <<>>]]
           data == SelectSeq(programs, LAMBDA row : row.id = id)
       IN  IF ~ok THEN Answer(req, 500, [error |-> "Supabase error"])
           ELSE IF data = <<>> THEN Answer(req, 404, [error |-> "Not found"])
           ELSE Answer(req, 200, publicViewHTML(id, data[1]))
  /\ CompileUnchanged
  /\ UNCHANGED <<calls, linked, programs>>

\* POST /admin/<token>: up to the call of compileProgramBot.
AdminUpdate ==
  /\ pc = "idle"
  /\ Len(responses) < MaxRequests
  /\ \E token \in AdminTokens, body \in UpdateBodies :
       LET req == [method |-> "POST", path |-> <<"admin", token>>, body |-> body]
       IN  IF body.source = <<>>
           THEN Answer(req, 400, [error |-> "Missing source"]) /\ CompileUnchanged
           ELSE /\ Invoke([rev |-> "PBO3", source |-> body.source, program |-> NoGraph])
                /\ request' = req
                /\ UNCHANGED responses
  /\ UNCHANGED <<calls, linked, programs>>

\* The PATCH of programs?admin_token=eq.<token>
Patched(token) ==
  [i \in DOMAIN programs |->
     IF programs[i].admin_token = token
     THEN [programs[i] EXCEPT !.source_code = request.body.source,
                              !.binary = bufferToHex(binary),
                              !.updated_at = Len(responses)]
     ELSE programs[i]]

\* POST /admin/<token>: compileProgramBot has returned; the PATCH and the
\* Response.
AdminPatch ==
  /\ pc = "returned"
  /\ request.method = "POST" /\ request.path # <<>>
  /\ \E ok \in BOOLEAN :
       IF ok
       THEN /\ programs' = Patched(request.path[2])
            /\ Answer(request, 200, [success |-> TRUE])
       ELSE /\ Answer(request, 500, [error |-> "Supabase error"])
            /\ UNCHANGED programs
  /\ Logged
  /\ CompileUnchanged
  /\ UNCHANGED linked

InitWorker ==
  /\ rev = "PBO3"
  /\ pc = "idle"
  /\ error = NoError
  /\ bytecode = <<>>
  /\ constants = <<>>
  /\ program = NoGraph
  /\ blockIds = {}
  /\ successors = NoMap
  /\ predecessors = NoMap
  /\ startId = Undefined
  /\ blockConstIdx = NoMap
  /\ blockStartPos = NoMap
  /\ jumpPatches = <<>>
  /\ placed = {}
  /\ pending = <<>>
  /\ source = <<>>
  /\ lexPos = 0
  /\ tokens = <<>>
  /\ ast = Null
  /\ ifMarks = <<>>
  /\ loopMarks = <<>>
  /\ marks = <<>>
  /\ loopStack = <<>>
  /\ errors = <<>>
  /\ constLog = <<>>
  /\ binary = <<>>
  /\ calls = <<>>
  /\ linked \in {"NBO1", "NBO2"}
  /\ programs = <<>>
  /\ request = NoRequest
  /\ responses = <<>>

NextWorker ==
  \/ CreateProgram
  \/ CreateInsert
  \/ CompilationFailed
  \/ PublicView
  \/ AdminUpdate
  \/ AdminPatch
  \/ NextCompile
  \/ NextNet

SpecWorker == InitWorker /\ [][NextWorker]_vars

-----------------------------------------------------------------------------
\* C29
\* The entry point the type of a create request selects.
CompilerOf(type) == IF type = "program-bot" THEN "PBO3" ELSE linked

\* The calls that returned a Buffer for the text: their entry point and the
\* Buffer as the table stores it.
CompiledFrom(text) ==
  { [rev |-> calls[k].rev, binary |-> bufferToHex(calls[k].binary)] :
      k \in {j \in DOMAIN calls : calls[j].source = text /\ calls[j].error = NoError} }

\* C29: after any sequence of create and admin-update requests, the binary
\* stored for a program is the compilation of its stored source by the
\* compiler selected when the program was created (program-bot or
\* network-bots).
C29_BinaryOfCreationCompiler ==
  \A i \in DOMAIN programs :
    [rev |-> CompilerOf(programs[i].type), binary |-> programs[i].binary]
      \in CompiledFrom(programs[i].source_code)

\* What the handlers keep: the binary stored for a program is what some
\* compile call of the worker returned for its stored source.
C29_StoredAsCompiled ==
  \A i \in DOMAIN programs :
    \E c \in CompiledFrom(programs[i].source_code) : c.binary = programs[i].binary

\* What the handlers keep: a row's source and binary change only in the
\* step in which a compile call has returned, both to that call's text and
\* Buffer; rows are never removed.
C29_ReplacedTogether ==
  [][ /\ Len(programs') >= Len(programs)
      /\ \A i \in DOMAIN programs :
           (programs'[i].source_code # programs[i].source_code
              \/ programs'[i].binary # programs[i].binary)
           => /\ pc = "returned"
              /\ programs'[i].source_code = request.body.source
              /\ programs'[i].binary = bufferToHex(binary) ]_vars

\* With the compileNetworkBots of src/compiler.js linked, which throws for
\* every graph, no network-bots program is ever stored.
C29_NoNetworkProgramStored ==
  linked = "NBO2" => \A i \in DOMAIN programs : programs[i].type = "program-bot"

\* A network-bots program has been updated with success.
C29_NetworkProgramUpdated ==
  \E i \in DOMAIN programs :
    /\ programs[i].type = "network-bots"
    /\ programs[i].updated_at > programs[i].created_at

-----------------------------------------------------------------------------
\* C30
\* The responses to GET /<id> that carry the page.
PublicPages ==
  { k \in DOMAIN responses :
      responses[k].request.method = "GET" /\ responses[k].status = 200 }

\* The strings a public page holds.
PageStrings(page) == Range(page.code) \cup Range(page.href)

\* C30: the response to a GET of the public page /<id> does not contain the
\* admin token of the program (nor that of any program).
C30_PublicPageHidesToken ==
  \A k \in PublicPages :
    \A i \in DOMAIN programs :
      programs[i].admin_token \notin PageStrings(responses[k].body)

\* What the handler does: the page of program id links to /admin/<token>
\* with the admin token of that program.
C30_PublicPageLinksAdmin ==
  \A k \in PublicPages :
    \E i \in DOMAIN programs :
      /\ programs[i].id = responses[k].request.path[1]
      /\ responses[k].body.href = <<"admin", programs[i].admin_token>>

====
